---------------------------- MODULE Spec2Model ----------------------------
(***************************************************************************)
(* Model of the register-bus temperature core:                             *)
(*   temp_monitor.py  poll cycle (read, port map, display, store)          *)
(*   modpoll.py       chunked register dump                                *)
(*   scan_roms.py     ROM scanner with Dallas CRC8                         *)
(*                                                                         *)
(* Temperatures are kept in tenths of a degree Celsius: the code computes  *)
(* x / 10.0 from an integer x, which is one-to-one on the integers         *)
(* involved, so a Celsius value is represented by the integer x and a      *)
(* comparison "c < -55" by "x < -550".                                     *)
(***************************************************************************)
EXTENDS Integers, Sequences, FiniteSets, TLC

VARIABLES
    \* ---- temp_monitor.py ----
    sensors,        \* sensors table: port_number -> calibration_offset_raw (or NULL)
    temperatures,   \* dict returned by read_temperature_sensors
    port_map,       \* dict returned by get_port_map (display's offsets)
    displayed,      \* rows printed by display_temperatures in this cycle
    stored,         \* rows inserted by store_sensor_data in this cycle
    tm_failed,      \* what failed in this cycle: "bus read", "offset lookup",
                    \* "database write"
    tm_pc,          \* position of the monitor's main loop
    \* ---- temp_monitor.py: ROM discovery at startup ----
    rd_env,         \* ROM_START_REGISTER (or None), ROM_REGISTERS_PER_SENSOR
    rd_mem,         \* the device's holding registers, from address 0
    rd_roms,        \* dict returned by read_sensor_roms
    rom_code,       \* sensors table: port_number -> rom_code (or NULL)
    rd_pc,          \* position of main before its loop
    \* ---- modpoll.py ----
    base,           \* args.start
    count,          \* args.count
    regs,           \* accumulated registers
    remaining,      \* registers still to request
    chunk_size,     \* size of the chunk being read
    calls,          \* transport reads issued so far, with their outcome
    read_error,     \* register offset printed by the failure message, if any
    printed,        \* (index, value) lines printed at the end
    mp_pc,          \* position of modpoll's main
    \* ---- scan_roms.py ----
    dev_mem,        \* the device's holding registers, from address 0
    sc_args,        \* args: start, end, step, registers_per_sensor
    block_start,    \* scan's loop variable
    found,          \* scan's result: reg_index -> list of (order, rom hex)
    examined,       \* every window scan has decoded: reg_index, order, rom bytes
    sc_stderr,      \* block starts of the "Read error at" messages
    sc_reads,       \* blocks the bus answered: block_start and registers
    crc_fail,       \* "Family 0x28 but CRC FAIL" lines: reg_index, order, rom
    sc_pc,          \* position of scan_roms' main
    \* ---- parse_regs_to_roms called on its own ----
    parse_args,     \* regs, registers_per_sensor, order_within_reg
    parse_roms,     \* the list returned, once it has returned
    \* ---- calibrate.py ----
    sensor_readings,    \* rows of the table inside the time window, oldest first
    calibration_offset, \* the column apply_offsets names: whether the table
                        \* has it, and its committed value per sensor id
    cal_argv,           \* args.method, args.ref_id
    cal_data,           \* data returned by fetch_recent_readings
    cal_offsets,        \* offsets computed by main
    cal_txn,            \* updates executed in the transaction of apply_offsets
                        \* and not committed: pending, or discarded on failure
    cal_runs,           \* offsets handed to apply_offsets, one entry per run
    cal_pc,             \* position of calibrate's main
    float_err,          \* per sensor, the sign of the float error of the
                        \* subtraction in the offset computations
    \* ---- compute_offsets_median / compute_offsets_reference on their own ----
    off_args,       \* method, data, ref_id
    off_result,     \* the outcome of the call, once it has ended
    \* ---- hubitat_agent ----
    hub_payload,        \* body of the request to /hubitat/events
    hub_devices,        \* devices fetched, or the devices of the payload
    hub_rows,           \* rows built from them
    insert_calls,       \* the lists of rows passed to insert_trv_rows in this
                        \* cycle or request
    trv_temperatures,   \* rows of the table (without their time)
    hub_failed,         \* what failed in this cycle or request: "device fetch",
                        \* "database write"
    hub_response,       \* the webhook's answer
    hub_pc,             \* position of run_poll_loop, or of the request
    \* ---- extract_trv_fields called on its own ----
    ext_device,     \* the device passed
    ext_result,     \* the outcome of the call, once it has ended
    \* ---- dallas_crc8 called on its own ----
    crc_data,       \* the bytes passed
    crc_result,     \* the value returned, once it has returned
    \* ---- the ModbusSerialClient of the program that runs ----
    client          \* "none" before connect() succeeds, then "open", "closed"
                    \* after close()

tmVars == <<sensors, temperatures, port_map, displayed, stored, tm_failed, tm_pc>>

rdVars == <<rd_env, rd_mem, rd_roms, rom_code, rd_pc>>

hubVars == <<hub_payload, hub_devices, hub_rows, insert_calls, trv_temperatures,
             hub_failed, hub_response, hub_pc>>

extVars == <<ext_device, ext_result>>

mpVars == <<base, count, regs, remaining, chunk_size, calls, read_error, printed, mp_pc>>

scVars == <<dev_mem, sc_args, block_start, found, examined, sc_stderr,
            sc_reads, crc_fail, sc_pc>>

parseVars == <<parse_args, parse_roms>>

offVars == <<off_args, off_result>>

calVars == <<sensor_readings, calibration_offset, cal_argv, cal_data, cal_offsets,
             cal_txn, cal_runs, cal_pc>>

\* float_err belongs to the arithmetic of the machine, not to a program
fpVars == <<float_err>>

crcVars == <<crc_data, crc_result>>

\* the programs and calls added to the first ones
moreVars == <<rdVars, hubVars, extVars>>

busVars == <<client>>

vars == <<tmVars, mpVars, scVars, crcVars, parseVars, offVars, calVars, fpVars,
          moreVars, busVars>>

\* what each program leaves alone: the state of the other programs
notTm == <<mpVars, scVars, crcVars, parseVars, offVars, calVars, fpVars, moreVars>>
notMp == <<tmVars, scVars, crcVars, parseVars, offVars, calVars, fpVars, moreVars>>
notSc == <<tmVars, mpVars, crcVars, parseVars, offVars, calVars, fpVars, moreVars>>
notCrc == <<tmVars, mpVars, scVars, parseVars, offVars, calVars, fpVars, moreVars,
            busVars>>
notParse == <<tmVars, mpVars, scVars, crcVars, offVars, calVars, fpVars, moreVars,
            busVars>>
notOff == <<tmVars, mpVars, scVars, crcVars, parseVars, calVars, fpVars, moreVars,
            busVars>>
notCal == <<tmVars, mpVars, scVars, crcVars, parseVars, offVars, fpVars, moreVars,
            busVars>>
notRd == <<tmVars, mpVars, scVars, crcVars, parseVars, offVars, calVars, fpVars,
           hubVars, extVars, busVars>>
notHub == <<tmVars, mpVars, scVars, crcVars, parseVars, offVars, calVars, fpVars,
            rdVars, extVars, busVars>>
notExt == <<tmVars, mpVars, scVars, crcVars, parseVars, offVars, calVars, fpVars,
            rdVars, hubVars, busVars>>

-----------------------------------------------------------------------------
(* Bounds of the model *)

\* raw words are drawn from windows of this radius around each boundary word
RawRadius == 1
\* registry offsets range over -MaxOffset .. MaxOffset (and the worked example)
MaxOffset == 2

\* modpoll: counts lie within CountRadius of a multiple of the chunk limit,
\* up to MaxChunks chunks
MaxChunks == 3
CountRadius == 1

\* scan_roms: the device holds MemWindows 8-byte windows of registers
MemWindows == 2
\* dallas_crc8 on its own: byte sequences up to this length
MaxCrcLen == 4
\* parse_regs_to_roms on its own: register lists up to this length
MaxWords == 5
\* offset computations on their own: samples per sensor
MaxSamples == 2
\* calibrate: rows of sensor_readings inside the window, and runs of main
MaxRows == 3
MaxRuns == 2
\* hubitat_agent: characters per string of a payload, devices per list
MaxStrLen == 3
MaxDevices == 2

(* Program constants *)

\* modpoll: registers per transport read (MODBUS limit)
max_per_read == 125

\* number of sensor ports (environment-configured, 8 by default)
NUM_SENSORS == 2

\* a column value is <<v>>, or <<>> for SQL NULL
NULL == <<>>
Col(v) == <<v>>
EmptyDict == <<>>

Ports == 1..NUM_SENSORS

Word16 == 0..65535

\* words at which decoding or classification changes
BoundaryWords == {0, 1250, 32767, 64986, 65535}

\* the worked examples of the specification: 32760 (+10) and 1300
ExampleWords == {32760, 1300}
ExampleOffset == {10}

RawWords ==
    {w \in Word16 : \E b \in BoundaryWords : w >= b - RawRadius /\ w <= b + RawRadius}
        \cup ExampleWords

Offsets == (-MaxOffset..MaxOffset) \cup ExampleOffset

-----------------------------------------------------------------------------
(* temp_monitor.py : pure parts *)

\* "x or 0" on a registry column
OrZero(x) == IF x = NULL THEN 0 ELSE x[1]

\* read_temperature_sensors: unadjusted temperature of a raw word
ReadCelsiusSignAt32768(raw_value) ==
    IF raw_value > 32768 THEN raw_value - 65536 ELSE raw_value

ReadCelsius(raw_value) ==
    IF raw_value > 32767 THEN raw_value - 65536 ELSE raw_value

\* read_temperature_sensors: one entry of the returned dict
SensorEntry(raw_value) ==
    [raw |-> raw_value, celsius |-> ReadCelsius(raw_value)]

\* store_sensor_data: calibrated temperature of one reading
StoreCelsiusSignFirst(raw_value, offset_raw) ==
    (IF raw_value > 32767 THEN raw_value - 65536 ELSE raw_value) + offset_raw

StoreCelsius(raw_value, offset_raw) ==
    LET adjusted_raw == raw_value + offset_raw
    IN  IF adjusted_raw > 32767 THEN adjusted_raw - 65536 ELSE adjusted_raw

\* display_temperatures: calibrated temperature of one reading
DisplayCelsius(raw, offset) ==
    LET adjusted_raw == raw + offset
    IN  IF adjusted_raw > 32767 THEN adjusted_raw - 65536 ELSE adjusted_raw

\* display_temperatures: status from the unadjusted reading, range test first
DisplayStatusOnRawWord(raw, raw_c) ==
    IF raw < -550 \/ raw > 1250 THEN "OUT OF RANGE"
    ELSE IF raw = 0 \/ raw = 65535 THEN "NOT CONNECTED"
    ELSE "OK"

DisplayStatus(raw, raw_c) ==
    IF raw_c < -550 \/ raw_c > 1250 THEN "OUT OF RANGE"
    ELSE IF raw = 0 \/ raw = 65535 THEN "NOT CONNECTED"
    ELSE "OK"

\* display_temperatures: the row printed for one sensor
DisplayRowStatusOfAdjusted(data, offset) ==
    [raw    |-> data.raw,
     raw_c  |-> data.celsius,
     offset |-> offset,
     true_c |-> DisplayCelsius(data.raw, offset),
     status |-> DisplayStatus(data.raw, DisplayCelsius(data.raw, offset))]

DisplayRow(data, offset) ==
    [raw    |-> data.raw,
     raw_c  |-> data.celsius,
     offset |-> offset,
     true_c |-> DisplayCelsius(data.raw, offset),
     status |-> DisplayStatus(data.raw, data.celsius)]

\* port_map built from the rows of the sensors table (id == port_number)
BuildPortMap(table) ==
    [p \in DOMAIN table |-> [id |-> p, offset |-> OrZero(table[p])]]

\* display_temperatures: offset looked up for a port
DisplayOffset(pm, sensor_num) ==
    IF sensor_num \in DOMAIN pm THEN pm[sensor_num].offset ELSE 0

\* store_sensor_data: port_map.get(sensor_port, (sensor_port, 0))
PortMapGet(pm, sensor_port) ==
    IF sensor_port \in DOMAIN pm THEN pm[sensor_port]
    ELSE [id |-> sensor_port, offset |-> 0]

-----------------------------------------------------------------------------
(* temp_monitor.py : the poll cycle of main *)

TmIdle ==
    /\ sensors = [p \in Ports |-> NULL]
    /\ temperatures = EmptyDict
    /\ port_map = EmptyDict
    /\ displayed = EmptyDict
    /\ stored = EmptyDict
    /\ tm_failed = {}
    /\ tm_pc = "idle"

TmInit ==
    /\ sensors \in [Ports -> {Col(o) : o \in Offsets} \cup {NULL}]
    /\ temperatures = EmptyDict
    /\ port_map = EmptyDict
    /\ displayed = EmptyDict
    /\ stored = EmptyDict
    /\ tm_failed = {}
    /\ tm_pc = "read"

\* read_temperature_sensors: the bus answers with NUM_SENSORS registers, or
\* with fewer and the loop stops at the first missing register
ReadTemperatureSensors ==
    /\ tm_pc = "read"
    /\ \E k \in 0..NUM_SENSORS :
         \E regs_in \in [1..k -> RawWords] :
            temperatures' = [i \in 1..k |-> SensorEntry(regs_in[i])]
    /\ tm_pc' = "port_map"
    /\ UNCHANGED <<sensors, port_map, displayed, stored, tm_failed>>
    /\ UNCHANGED client
    /\ UNCHANGED notTm

\* read_temperature_sensors: the bus read raises, or returns nothing or an
\* error response: message, empty dict
ReadTemperatureSensorsFails ==
    /\ tm_pc = "read"
    /\ temperatures' = EmptyDict
    /\ tm_failed' = tm_failed \cup {"bus read"}
    /\ tm_pc' = "port_map"
    /\ UNCHANGED <<sensors, port_map, displayed, stored>>
    /\ UNCHANGED client
    /\ UNCHANGED notTm

\* get_port_map: the query succeeds
GetPortMap ==
    /\ tm_pc = "port_map"
    /\ port_map' = BuildPortMap(sensors)
    /\ tm_pc' = "display"
    /\ UNCHANGED <<sensors, temperatures, displayed, stored, tm_failed>>
    /\ UNCHANGED client
    /\ UNCHANGED notTm

\* get_port_map: the query raises and the helper returns {}
GetPortMapFails ==
    /\ tm_pc = "port_map"
    /\ port_map' = EmptyDict
    /\ tm_failed' = tm_failed \cup {"offset lookup"}
    /\ tm_pc' = "display"
    /\ UNCHANGED <<sensors, temperatures, displayed, stored>>
    /\ UNCHANGED client
    /\ UNCHANGED notTm

\* display_temperatures(temperatures, port_map)
DisplayTemperatures ==
    /\ tm_pc = "display"
    /\ displayed' =
         [p \in DOMAIN temperatures |->
            DisplayRow(temperatures[p], DisplayOffset(port_map, p))]
    /\ tm_pc' = "store"
    /\ UNCHANGED <<sensors, temperatures, port_map, stored, tm_failed>>
    /\ UNCHANGED client
    /\ UNCHANGED notTm

\* store_sensor_data(temperatures): rows are computed from a fresh read of
\* the sensors table and inserted; nothing is stored for an empty dict
StoreSensorData ==
    /\ tm_pc = "store"
    /\ stored' =
         IF temperatures = EmptyDict THEN EmptyDict
         ELSE LET pm == BuildPortMap(sensors)
              IN  [p \in DOMAIN temperatures |->
                     LET entry == PortMapGet(pm, p)
                     IN  [sensor_id |-> entry.id,
                          offset    |-> entry.offset,
                          temp_c    |-> StoreCelsius(temperatures[p].raw, entry.offset),
                          raw_value |-> temperatures[p].raw]]
    /\ tm_pc' = "sleep"
    /\ UNCHANGED <<sensors, temperatures, port_map, displayed, tm_failed>>
    /\ UNCHANGED client
    /\ UNCHANGED notTm

\* store_sensor_data lets the database's exception through: main's finally
\* closes the client and the process ends
StoreSensorDataRaises ==
    /\ tm_pc = "store"
    /\ temperatures # EmptyDict
    /\ stored' = EmptyDict
    /\ tm_failed' = tm_failed \cup {"database write"}
    /\ tm_pc' = "raised"
    /\ UNCHANGED <<sensors, temperatures, port_map, displayed>>
    /\ client' = "closed"
    /\ UNCHANGED notTm

\* store_sensor_data: the database raises and the function returns False
StoreSensorDataFails ==
    /\ tm_pc = "store"
    /\ temperatures # EmptyDict
    /\ stored' = EmptyDict
    /\ tm_failed' = tm_failed \cup {"database write"}
    /\ tm_pc' = "sleep"
    /\ UNCHANGED <<sensors, temperatures, port_map, displayed>>
    /\ UNCHANGED client
    /\ UNCHANGED notTm

\* time.sleep(POLL_INTERVAL), then the next iteration of while True; the
\* cycle's locals and output are dead from here on and start the next cycle empty
Sleep ==
    /\ tm_pc = "sleep"
    /\ tm_pc' = "read"
    /\ temperatures' = EmptyDict
    /\ port_map' = EmptyDict
    /\ displayed' = EmptyDict
    /\ stored' = EmptyDict
    /\ tm_failed' = {}
    /\ UNCHANGED sensors
    /\ UNCHANGED client
    /\ UNCHANGED notTm

\* the positions of the while True loop of main
TmLoop == {"read", "port_map", "display", "store", "sleep"}

\* main: KeyboardInterrupt arrives in the loop; except prints, finally closes
\* the client
TmInterrupt ==
    /\ tm_pc \in TmLoop
    /\ tm_pc' = "closed"
    /\ UNCHANGED <<sensors, temperatures, port_map, displayed, stored, tm_failed>>
    /\ client' = "closed"
    /\ UNCHANGED notTm

\* main: an exception none of the helpers catches (display_temperatures,
\* time.sleep) leaves the try: finally closes the client, the exception
\* ends the process
TmLoopRaises ==
    /\ tm_pc \in TmLoop
    /\ tm_pc' = "raised"
    /\ UNCHANGED <<sensors, temperatures, port_map, displayed, stored, tm_failed>>
    /\ client' = "closed"
    /\ UNCHANGED notTm

TmNext ==
    \/ ReadTemperatureSensors
    \/ ReadTemperatureSensorsFails
    \/ GetPortMap
    \/ GetPortMapFails
    \/ DisplayTemperatures
    \/ StoreSensorData
    \/ StoreSensorDataFails
    \/ Sleep

-----------------------------------------------------------------------------
(* modpoll.py : main *)

None == <<>>

Min(a, b) == IF a < b THEN a ELSE b

\* contents of the device's register at an address
Dev(addr) == (addr * 257 + 4660) % 65536

\* args.start and args.count
Starts == {0, 1000}

Counts ==
    {c \in 0..(MaxChunks * max_per_read) :
        \E k \in 0..MaxChunks :
            c >= k * max_per_read - CountRadius /\ c <= k * max_per_read + CountRadius}
      \cup {300}

\* number of words a non-error response to a request of n registers may carry:
\* all of them, or fewer
ResponseLens(n) == {n} \cup {k \in {0, 1, n - 1} : k >= 0 /\ k < n}

\* rr.registers for a response of n words to a read at addr
Registers(addr, n) == [i \in 1..n |-> Dev(addr + i - 1)]

\* chunk_size = min(max_per_read, remaining)
ChunkSizeNoMin(rem) == max_per_read

ChunkSize(rem) == Min(max_per_read, rem)

\* regs.extend(rr.registers)
ExtendAssigns(acc, words) == words

Extend(acc, words) == acc \o words

\* where control goes after a failed chunk: break leaves the while loop
AfterFailureContinue == "loop"

AfterFailure == "report"

MpIdle ==
    /\ base = 0
    /\ count = 0
    /\ regs = <<>>
    /\ remaining = 0
    /\ chunk_size = 0
    /\ calls = <<>>
    /\ read_error = None
    /\ printed = <<>>
    /\ mp_pc = "idle"

MpInit ==
    /\ base \in Starts
    /\ count \in Counts
    /\ regs = <<>>
    /\ remaining = 0
    /\ chunk_size = 0
    /\ calls = <<>>
    /\ read_error = None
    /\ printed = <<>>
    /\ mp_pc = "connect"

\* client.connect() succeeds: regs = [], remaining = args.count
MpConnect ==
    /\ mp_pc = "connect"
    /\ regs' = <<>>
    /\ remaining' = count
    /\ mp_pc' = "loop"
    /\ UNCHANGED <<base, count, chunk_size, calls, read_error, printed>>
    /\ client' = "open"
    /\ UNCHANGED notMp

\* client.connect() fails: sys.exit(2)
MpConnectFails ==
    /\ mp_pc = "connect"
    /\ mp_pc' = "exit"
    /\ UNCHANGED <<base, count, regs, remaining, chunk_size, calls, read_error, printed>>
    /\ UNCHANGED client
    /\ UNCHANGED notMp

\* while remaining > 0: the next chunk is requested from the transport
MpIssueRead ==
    /\ mp_pc = "loop"
    /\ remaining > 0
    /\ chunk_size' = ChunkSize(remaining)
    /\ calls' = Append(calls, [addr    |-> base + Len(regs),
                               count   |-> ChunkSize(remaining),
                               outcome |-> "pending",
                               words   |-> <<>>])
    /\ mp_pc' = "call"
    /\ UNCHANGED <<base, count, regs, remaining, read_error, printed>>
    /\ UNCHANGED client
    /\ UNCHANGED notMp

\* the transport returns a non-error response carrying n words
MpReadReturns ==
    /\ mp_pc = "call"
    /\ \E n \in ResponseLens(chunk_size) :
          LET call  == calls[Len(calls)]
              words == Registers(call.addr, n)
          IN  /\ regs' = Extend(regs, words)
              /\ calls' = [calls EXCEPT ![Len(calls)] =
                              [call EXCEPT !.outcome = "ok", !.words = words]]
    /\ remaining' = remaining - chunk_size
    /\ mp_pc' = "loop"
    /\ UNCHANGED <<base, count, chunk_size, read_error, printed>>
    /\ UNCHANGED client
    /\ UNCHANGED notMp

\* the transport returns a falsy or error response: message, break
MpReadError ==
    /\ mp_pc = "call"
    /\ calls' = [calls EXCEPT ![Len(calls)].outcome = "error"]
    /\ read_error' = <<base + Len(regs)>>
    /\ mp_pc' = AfterFailure
    /\ UNCHANGED <<base, count, regs, remaining, chunk_size, printed>>
    /\ UNCHANGED client
    /\ UNCHANGED notMp

\* the transport raises: message, break
MpReadRaises ==
    /\ mp_pc = "call"
    /\ calls' = [calls EXCEPT ![Len(calls)].outcome = "exception"]
    /\ read_error' = <<base + Len(regs)>>
    /\ mp_pc' = AfterFailure
    /\ UNCHANGED <<base, count, regs, remaining, chunk_size, printed>>
    /\ UNCHANGED client
    /\ UNCHANGED notMp

\* the while condition is false
MpLoopEnds ==
    /\ mp_pc = "loop"
    /\ ~(remaining > 0)
    /\ mp_pc' = "report"
    /\ UNCHANGED <<base, count, regs, remaining, chunk_size, calls, read_error, printed>>
    /\ UNCHANGED client
    /\ UNCHANGED notMp

\* "No data read" and return, or every register printed with its index;
\* then finally: client.close()
MpReport ==
    /\ mp_pc = "report"
    /\ printed' = [i \in 1..Len(regs) |-> <<base + i - 1, regs[i]>>]
    /\ mp_pc' = "closed"
    /\ UNCHANGED <<base, count, regs, remaining, chunk_size, calls, read_error>>
    /\ client' = "closed"
    /\ UNCHANGED notMp

\* the interrupt ends the process at once, no finally clause runs
MpInterruptWithoutFinally ==
    /\ mp_pc \in {"loop", "call", "report"}
    /\ mp_pc' = "interrupted"
    /\ UNCHANGED client
    /\ UNCHANGED <<base, count, regs, remaining, chunk_size, calls, read_error, printed>>
    /\ UNCHANGED notMp

\* KeyboardInterrupt arrives inside the try: the handlers for Exception do
\* not catch it, finally closes the client, the interrupt ends the process
MpInterrupt ==
    /\ mp_pc \in {"loop", "call", "report"}
    /\ mp_pc' = "interrupted"
    /\ client' = "closed"
    /\ UNCHANGED <<base, count, regs, remaining, chunk_size, calls, read_error, printed>>
    /\ UNCHANGED notMp

\* an exception outside the inner try (printing): "Fatal error", then
\* finally closes the client
MpFatal ==
    /\ mp_pc \in {"loop", "report"}
    /\ mp_pc' = "fatal"
    /\ client' = "closed"
    /\ UNCHANGED <<base, count, regs, remaining, chunk_size, calls, read_error, printed>>
    /\ UNCHANGED notMp

MpNext ==
    \/ MpConnect
    \/ MpConnectFails
    \/ MpIssueRead
    \/ MpReadReturns
    \/ MpReadError
    \/ MpReadRaises
    \/ MpLoopEnds
    \/ MpReport

-----------------------------------------------------------------------------
(* scan_roms.py : pure parts *)

Byte == 0..255

\* a ^ b on non-negative integers
RECURSIVE Xor(_, _)
Xor(a, b) ==
    IF a = 0 THEN b
    ELSE IF b = 0 THEN a
    ELSE (((a % 2) + (b % 2)) % 2) + 2 * Xor(a \div 2, b \div 2)

\* one pass of the inner loop of dallas_crc8
CrcShiftXorFirst(crc) ==
    IF crc % 2 = 1 THEN Xor(crc, 140) \div 2 ELSE crc \div 2

CrcShift(crc) ==
    IF crc % 2 = 1 THEN Xor(crc \div 2, 140) ELSE crc \div 2

\* TLC evaluates an operator's argument when it is first used; the loops
\* below test Evaluated(v) on each new value of an accumulator so that it is
\* computed before the next iteration, not at the end of the loop
Evaluated(v) == v = v

\* for _ in range(8)
RECURSIVE CrcShiftTimes(_, _)
CrcShiftTimes(crc, n) ==
    IF n = 0 THEN crc
    ELSE LET shifted == CrcShift(crc)
         IN  IF Evaluated(shifted) THEN CrcShiftTimes(shifted, n - 1) ELSE crc

\* the outer loop of dallas_crc8 from byte i on
RECURSIVE CrcFrom(_, _, _)
CrcFrom(crc, data, i) ==
    IF i > Len(data) THEN crc
    ELSE LET after_byte == CrcShiftTimes(Xor(crc, data[i]), 8)
         IN  IF Evaluated(after_byte) THEN CrcFrom(after_byte, data, i + 1) ELSE crc

dallas_crc8(data) == CrcFrom(0, data, 1)

\* the two bytes of a register under a byte order
RegBytesHighFirst(reg, order_within_reg) ==
    <<(reg \div 256) % 256, reg % 256>>

RegBytes(reg, order_within_reg) ==
    LET high == (reg \div 256) % 256
        low  == reg % 256
    IN  IF order_within_reg = "big" THEN <<high, low>> ELSE <<low, high>>

\* bytearray of a chunk of registers
RECURSIVE ChunkBytes(_, _)
ChunkBytes(chunk, order_within_reg) ==
    IF chunk = <<>> THEN <<>>
    ELSE RegBytes(chunk[1], order_within_reg) \o ChunkBytes(Tail(chunk), order_within_reg)

\* b[:8]
Take(b, n) == SubSeq(b, 1, Min(n, Len(b)))

\* regs[i:i+n], i counted from 0
Slice(rs, i, n) == SubSeq(rs, i + 1, Min(i + n, Len(rs)))

\* the loop of parse_regs_to_roms from index i on
RECURSIVE ParseFromKeepsPartial(_, _, _, _)
ParseFromKeepsPartial(rs, i, registers_per_sensor, order_within_reg) ==
    IF i >= Len(rs) THEN <<>>
    ELSE <<Take(ChunkBytes(Slice(rs, i, registers_per_sensor), order_within_reg), 8)>>
           \o ParseFromKeepsPartial(rs, i + registers_per_sensor,
                                    registers_per_sensor, order_within_reg)

RECURSIVE ParseFrom(_, _, _, _)
ParseFrom(rs, i, registers_per_sensor, order_within_reg) ==
    IF i >= Len(rs) THEN <<>>
    ELSE LET chunk == Slice(rs, i, registers_per_sensor)
         IN  IF Len(chunk) < registers_per_sensor THEN <<>>
             ELSE <<Take(ChunkBytes(chunk, order_within_reg), 8)>>
                    \o ParseFrom(rs, i + registers_per_sensor,
                                 registers_per_sensor, order_within_reg)

parse_regs_to_roms(rs, registers_per_sensor, order_within_reg) ==
    ParseFrom(rs, 0, registers_per_sensor, order_within_reg)

\* rom.hex(): two hexadecimal digits per byte, high digit first
RECURSIVE Hex(_)
Hex(b) ==
    IF b = <<>> THEN <<>> ELSE <<b[1] \div 16, b[1] % 16>> \o Hex(Tail(b))

\* scan: the test that makes a window a candidate
IsCandidateCrcOnly(rom) ==
    Len(rom) >= 8 /\ dallas_crc8(SubSeq(rom, 1, 7)) = rom[8]

IsCandidate(rom) ==
    /\ Len(rom) >= 8
    /\ rom[1] = 40 /\ dallas_crc8(SubSeq(rom, 1, 7)) = rom[8]

\* found.setdefault(reg_index, []).append((order, rom.hex()))
SetDefaultAppend(fnd, reg_index, entry) ==
    IF reg_index \in DOMAIN fnd
    THEN [fnd EXCEPT ![reg_index] = Append(@, entry)]
    ELSE fnd @@ (reg_index :> <<entry>>)

\* scan: the loop over enumerate(roms), from list position idx + 1 on
RECURSIVE ScanRomsStopsAtCrcFail(_, _, _, _, _, _)
ScanRomsStopsAtCrcFail(fnd, roms, idx, order, blk, registers_per_sensor) ==
    IF idx >= Len(roms) THEN fnd
    ELSE LET rom == roms[idx + 1]
             reg_index == blk + idx * registers_per_sensor
         IN  IF IsCandidate(rom)
             THEN ScanRomsStopsAtCrcFail(
                     SetDefaultAppend(fnd, reg_index, <<order, Hex(rom)>>),
                     roms, idx + 1, order, blk, registers_per_sensor)
             ELSE IF Len(rom) >= 8 /\ rom[1] = 40 THEN fnd
             ELSE ScanRomsStopsAtCrcFail(fnd, roms, idx + 1, order, blk,
                                         registers_per_sensor)

RECURSIVE ScanRoms(_, _, _, _, _, _)
ScanRoms(fnd, roms, idx, order, blk, registers_per_sensor) ==
    IF idx >= Len(roms) THEN fnd
    ELSE LET rom == roms[idx + 1]
             reg_index == blk + idx * registers_per_sensor
             updated == IF IsCandidate(rom)
                        THEN SetDefaultAppend(fnd, reg_index, <<order, Hex(rom)>>)
                        ELSE fnd
         IN  IF Evaluated(updated)
             THEN ScanRoms(updated, roms, idx + 1, order, blk, registers_per_sensor)
             ELSE fnd

\* scan: for order in ('big', 'little')
ScanOrdersBigOnly(fnd, rs, blk, registers_per_sensor) ==
    ScanRoms(fnd, parse_regs_to_roms(rs, registers_per_sensor, "big"),
             0, "big", blk, registers_per_sensor)

ScanOrders(fnd, rs, blk, registers_per_sensor) ==
    LET after_big == ScanRoms(fnd, parse_regs_to_roms(rs, registers_per_sensor, "big"),
                              0, "big", blk, registers_per_sensor)
    IN  IF Evaluated(after_big)
        THEN ScanRoms(after_big, parse_regs_to_roms(rs, registers_per_sensor, "little"),
                      0, "little", blk, registers_per_sensor)
        ELSE fnd

\* scan: the lines printed for windows of family 0x28 whose checksum fails
CrcFailLines(rs, blk, registers_per_sensor) ==
    UNION {
      LET decoded == parse_regs_to_roms(rs, registers_per_sensor, order)
      IN  {[reg_index |-> blk + (k - 1) * registers_per_sensor,
            order |-> order, rom |-> decoded[k]] :
              k \in {j \in 1..Len(decoded) :
                       /\ Len(decoded[j]) >= 8
                       /\ ~IsCandidate(decoded[j])
                       /\ decoded[j][1] = 40}}
      : order \in {"big", "little"}}

\* the windows the two decoding passes of one block go through
WindowsOf(rs, blk, registers_per_sensor) ==
    UNION {
      LET decoded == parse_regs_to_roms(rs, registers_per_sensor, order)
      IN  {[reg_index |-> blk + (k - 1) * registers_per_sensor,
            order |-> order, rom |-> decoded[k]] : k \in 1..Len(decoded)}
      : order \in {"big", "little"}}

-----------------------------------------------------------------------------
(* scan_roms.py : the device and the scan *)

\* 8-byte windows a device may hold (as read high byte first):
\* a sensor ROM; the same ROM with the bytes of every register swapped;
\* all zeros; family 0x28 with a wrong checksum; a ROM that is valid under
\* both byte orders; a valid ROM of another family (02 1C B8 01 00 00 00 A2)
SampleWindows ==
    { <<40, 255, 75, 70, 145, 22, 4, 156>>,
      <<255, 40, 70, 75, 22, 145, 156, 4>>,
      <<0, 0, 0, 0, 0, 0, 0, 0>>,
      <<40, 255, 75, 70, 145, 22, 4, 0>>,
      <<40, 40, 0, 0, 0, 0, 23, 23>>,
      <<2, 28, 184, 1, 0, 0, 0, 162>> }

\* the four registers that hold an 8-byte window, high byte first
WindowRegs(w) == [i \in 1..4 |-> w[2 * i - 1] * 256 + w[2 * i]]

RECURSIVE Flatten(_)
Flatten(ws) == IF ws = <<>> THEN <<>> ELSE WindowRegs(ws[1]) \o Flatten(Tail(ws))

DevMems == {Flatten(ws) : ws \in [1..MemWindows -> SampleWindows]}

\* args.step and args.registers_per_sensor (defaults 64 and 4)
Steps == {4, 6, 64}
RegistersPerSensor == {3, 4, 5}

\* the registers a response of n words to a read at addr carries
MemRegisters(mem, addr, n) == [i \in 1..n |-> mem[addr + i]]

\* a non-error response carries the count requested, or one register less
ScanResponseLens(n) == {n} \cup {k \in {n - 1} : k >= 0}

ScIdle ==
    /\ dev_mem = <<>>
    /\ sc_args = [start |-> 0, end |-> 0, step |-> 64, registers_per_sensor |-> 4]
    /\ block_start = 0
    /\ found = <<>>
    /\ examined = {}
    /\ sc_stderr = {}
    /\ sc_reads = {}
    /\ crc_fail = {}
    /\ sc_pc = "idle"

ScInit ==
    /\ dev_mem \in DevMems
    /\ sc_args \in [start : {0, 1}, end : {Len(dev_mem)}, step : Steps,
                     registers_per_sensor : RegistersPerSensor]
    /\ block_start = 0
    /\ found = <<>>
    /\ examined = {}
    /\ sc_stderr = {}
    /\ sc_reads = {}
    /\ crc_fail = {}
    /\ sc_pc = "connect"

\* client.connect() succeeds and scan starts: found = {}, first block
ScConnect ==
    /\ sc_pc = "connect"
    /\ found' = <<>>
    /\ block_start' = sc_args.start
    /\ sc_pc' = "scan"
    /\ UNCHANGED <<dev_mem, sc_args, examined, sc_stderr, sc_reads, crc_fail>>
    /\ client' = "open"
    /\ UNCHANGED notSc

\* client.connect() fails: sys.exit(2)
ScConnectFails ==
    /\ sc_pc = "connect"
    /\ sc_pc' = "exit"
    /\ UNCHANGED <<dev_mem, sc_args, block_start, found, examined, sc_stderr,
                   sc_reads, crc_fail>>
    /\ UNCHANGED client
    /\ UNCHANGED notSc

\* one block: the read returns registers, which are decoded under both orders
ScanBlock ==
    /\ sc_pc = "scan"
    /\ block_start < sc_args.end
    /\ LET cnt == Min(sc_args.step, sc_args.end - block_start)
       IN  \E n \in ScanResponseLens(cnt) :
              LET rs == MemRegisters(dev_mem, block_start, n)
              IN  /\ found' = ScanOrders(found, rs, block_start,
                                         sc_args.registers_per_sensor)
                  /\ examined' = examined \cup
                        WindowsOf(rs, block_start, sc_args.registers_per_sensor)
                  /\ crc_fail' = crc_fail \cup
                        CrcFailLines(rs, block_start, sc_args.registers_per_sensor)
                  /\ sc_reads' = sc_reads \cup
                        {[block_start |-> block_start, regs |-> rs]}
    /\ block_start' = block_start + sc_args.step
    /\ UNCHANGED <<dev_mem, sc_args, sc_stderr, sc_pc>>
    /\ UNCHANGED client
    /\ UNCHANGED notSc

\* one block: falsy or error response: sleep, continue
ScanBlockError ==
    /\ sc_pc = "scan"
    /\ block_start < sc_args.end
    /\ block_start' = block_start + sc_args.step
    /\ UNCHANGED <<dev_mem, sc_args, found, examined, sc_stderr,
                   sc_reads, crc_fail, sc_pc>>
    /\ UNCHANGED client
    /\ UNCHANGED notSc

\* one block: the read raises: message, sleep, continue
ScanBlockRaises ==
    /\ sc_pc = "scan"
    /\ block_start < sc_args.end
    /\ sc_stderr' = sc_stderr \cup {block_start}
    /\ block_start' = block_start + sc_args.step
    /\ UNCHANGED <<dev_mem, sc_args, found, examined, sc_reads, crc_fail, sc_pc>>
    /\ UNCHANGED client
    /\ UNCHANGED notSc

\* the range is exhausted: scan returns found, main prints and closes
ScanReturns ==
    /\ sc_pc = "scan"
    /\ ~(block_start < sc_args.end)
    /\ sc_pc' = "closed"
    /\ UNCHANGED <<dev_mem, sc_args, block_start, found, examined, sc_stderr,
                   sc_reads, crc_fail>>
    /\ client' = "closed"
    /\ UNCHANGED notSc

\* KeyboardInterrupt, or an exception scan does not catch, leaves the try of
\* main: finally closes the client
ScInterrupt ==
    /\ sc_pc = "scan"
    /\ sc_pc' = "interrupted"
    /\ client' = "closed"
    /\ UNCHANGED <<dev_mem, sc_args, block_start, found, examined, sc_stderr,
                   sc_reads, crc_fail>>
    /\ UNCHANGED notSc

ScNext ==
    \/ ScConnect
    \/ ScConnectFails
    \/ ScanBlock
    \/ ScanBlockError
    \/ ScanBlockRaises
    \/ ScanReturns

-----------------------------------------------------------------------------
(* dallas_crc8 called on its own *)

\* bytes the sequences are built from
CrcBytes == {0, 1, 40, 128, 255}

CrcInputs ==
    UNION {[1..n -> CrcBytes] : n \in 0..MaxCrcLen}
      \cup {<<b>> : b \in Byte}
      \cup SampleWindows
      \cup {SubSeq(w, 1, 7) : w \in SampleWindows}

CrcIdle ==
    /\ crc_data = <<>>
    /\ crc_result = <<>>

CrcInit ==
    /\ crc_data \in CrcInputs
    /\ crc_result = <<>>

\* the call returns
CrcCall ==
    /\ crc_result = <<>>
    /\ crc_result' = <<dallas_crc8(crc_data)>>
    /\ UNCHANGED crc_data
    /\ UNCHANGED notCrc

-----------------------------------------------------------------------------
(* parse_regs_to_roms called on its own *)

\* 8-byte ROMs whose registers are passed: the windows above and ROMs of
\* extreme and of pairwise distinct bytes
KnownRoms ==
    SampleWindows \cup
    { <<1, 2, 3, 4, 5, 6, 7, 8>>,
      <<255, 255, 255, 255, 255, 255, 255, 255>>,
      <<0, 255, 0, 255, 128, 127, 1, 254>> }

\* the four registers a device holds for a ROM, under either byte order
RomRegisters ==
    {WindowRegs(w) : w \in KnownRoms}
      \cup {[i \in 1..4 |-> w[2 * i] * 256 + w[2 * i - 1]] : w \in KnownRoms}

\* words the other register lists are built from
ParseWords == {258, 10495, 65280}

ParseInputs == UNION {[1..n -> ParseWords] : n \in 0..MaxWords} \cup RomRegisters

ParseIdle ==
    /\ parse_args = [regs |-> <<>>, registers_per_sensor |-> 4,
                     order_within_reg |-> "big"]
    /\ parse_roms = <<>>

ParseInit ==
    /\ parse_args \in [regs : ParseInputs,
                        registers_per_sensor : 1..(MaxWords + 1),
                        order_within_reg : {"big", "little"}]
    /\ parse_roms = <<>>

\* the call returns
ParseCall ==
    /\ parse_roms = <<>>
    /\ parse_roms' = <<parse_regs_to_roms(parse_args.regs,
                                          parse_args.registers_per_sensor,
                                          parse_args.order_within_reg)>>
    /\ UNCHANGED parse_args
    /\ UNCHANGED notParse

-----------------------------------------------------------------------------
(* calibrate.py : pure parts *)

\* A Python dict is a sequence of [sid, ...] entries in insertion order.
\* A sample is the raw value of a (timestamp, raw) pair: the timestamp is
\* never read by the computations.
\* A Python float that is a quotient of integers is kept as the exact
\* fraction [n, d], d > 0; where the float computation is inexact, the sign
\* of its error is an input (see PyRound).
Frac(n, d) == [n |-> n, d |-> d]

FracLess(a, b) == a.n * b.d < b.n * a.d

\* a - b
FracSub(a, b) == Frac(a.n * b.d - b.n * a.d, a.d * b.d)

\* (a + b) / 2
FracMid(a, b) == Frac(a.n * b.d + b.n * a.d, 2 * a.d * b.d)

\* sum(raws)
RECURSIVE SumOf(_)
SumOf(raws) == IF raws = <<>> THEN 0 ELSE Head(raws) + SumOf(Tail(raws))

\* sum(raws) / len(raws)
MeanOf(raws) == Frac(SumOf(raws), Len(raws))

\* a binary float holds the quotient exactly when, in lowest terms, the
\* denominator is a power of two (the numerators here are small)
FloatExact(q) == \E k \in 0..16 : (q.n * (2 ^ k)) % q.d = 0

\* math.floor of a fraction
FracFloor(q) == q.n \div q.d

\* the fraction lies halfway between two integers
IsTie(q) == (2 * q.n) % q.d = 0 /\ q.n % q.d # 0

\* int(round(x)): Python 3 rounds a float to the nearest integer and a tie
\* to the even neighbour.  When x was computed inexactly and the exact
\* value is a tie, the float lies just above (fp > 0), just below (fp < 0)
\* or on the tie (fp = 0).
PyRound(q, exact, fp) ==
    LET f == FracFloor(q)
    IN  IF ~IsTie(q) THEN (2 * q.n + q.d) \div (2 * q.d)
        ELSE IF ~exact /\ fp > 0 THEN f + 1
        ELSE IF ~exact /\ fp < 0 THEN f
        ELSE IF f % 2 = 0 THEN f ELSE f + 1

\* statistics.median(values): the middle of the sorted values, or the mean
\* of the two middle ones
MedianLowerMiddle(values) ==
    SortSeq(values, FracLess)[(Len(values) + 1) \div 2]

Median(values) ==
    LET sorted == SortSeq(values, FracLess)
        n == Len(sorted)
    IN  IF n % 2 = 1 THEN sorted[(n + 1) \div 2]
        ELSE FracMid(sorted[n \div 2], sorted[(n \div 2) + 1])

\* the floats the median was computed from are exact
MedianExact(values) ==
    LET sorted == SortSeq(values, FracLess)
        n == Len(sorted)
    IN  IF n % 2 = 1 THEN FloatExact(sorted[(n + 1) \div 2])
        ELSE FloatExact(sorted[n \div 2]) /\ FloatExact(sorted[(n \div 2) + 1])

\* compute_offsets_median: the means dict
RECURSIVE MeansOfEmptyAsZero(_)
MeansOfEmptyAsZero(data) ==
    IF data = <<>> THEN <<>>
    ELSE <<[sid |-> Head(data).sid,
            mean |-> IF Head(data).samples # <<>> THEN MeanOf(Head(data).samples)
                     ELSE Frac(0, 1)]>>
           \o MeansOfEmptyAsZero(Tail(data))

RECURSIVE MeansOf(_)
MeansOf(data) ==
    IF data = <<>> THEN <<>>
    ELSE (IF Head(data).samples # <<>>
          THEN <<[sid |-> Head(data).sid, mean |-> MeanOf(Head(data).samples)]>>
          ELSE <<>>)
         \o MeansOf(Tail(data))

\* compute_offsets_median(data); fp[sid] is the sign of the float error of
\* median_of_means - m for that sensor
compute_offsets_median(data, fp) ==
    LET means == MeansOf(data)
    IN  IF means = <<>> THEN <<>>
        ELSE LET values == [i \in 1..Len(means) |-> means[i].mean]
                 median_of_means == Median(values)
             IN  [i \in 1..Len(means) |->
                    [sid |-> means[i].sid,
                     offset |-> PyRound(FracSub(median_of_means, means[i].mean),
                                        MedianExact(values) /\ FloatExact(means[i].mean),
                                        fp[means[i].sid])]]

\* data[ref_id], or nothing when the key is absent
DictGet(data, sid) ==
    IF \E i \in 1..Len(data) : data[i].sid = sid
    THEN <<data[CHOOSE i \in 1..Len(data) : data[i].sid = sid].samples>>
    ELSE <<>>

\* raise ValueError(...)
ReturnsEmptyInsteadOfRaising == [raised |-> FALSE, value |-> <<>>]

RaiseValueError == [raised |-> TRUE, value |-> <<>>]

\* compute_offsets_reference: the loop over data.items()
RECURSIVE ReferenceOffsetsSwapped(_, _, _)
ReferenceOffsetsSwapped(data, ref_mean, fp) ==
    IF data = <<>> THEN <<>>
    ELSE (IF Head(data).samples = <<>> THEN <<>>
          ELSE LET mean == MeanOf(Head(data).samples)
               IN  <<[sid |-> Head(data).sid,
                      offset |-> PyRound(FracSub(mean, ref_mean),
                                         FloatExact(ref_mean) /\ FloatExact(mean),
                                         fp[Head(data).sid])]>>)
         \o ReferenceOffsetsSwapped(Tail(data), ref_mean, fp)

RECURSIVE ReferenceOffsets(_, _, _)
ReferenceOffsets(data, ref_mean, fp) ==
    IF data = <<>> THEN <<>>
    ELSE (IF Head(data).samples = <<>> THEN <<>>
          ELSE LET mean == MeanOf(Head(data).samples)
               IN  <<[sid |-> Head(data).sid,
                      offset |-> PyRound(FracSub(ref_mean, mean),
                                         FloatExact(ref_mean) /\ FloatExact(mean),
                                         fp[Head(data).sid])]>>)
         \o ReferenceOffsets(Tail(data), ref_mean, fp)

\* compute_offsets_reference(data, ref_id)
compute_offsets_reference(data, ref_id, fp) ==
    LET ref_samples == DictGet(data, ref_id)
    IN  IF ref_samples = <<>> \/ ref_samples[1] = <<>> THEN RaiseValueError
        ELSE [raised |-> FALSE,
              value |-> ReferenceOffsets(data, MeanOf(ref_samples[1]), fp)]

-----------------------------------------------------------------------------
(* compute_offsets_median and compute_offsets_reference called on their own *)

\* sensor ids of the data passed
CalSensorIds == {1, 2, 3}

\* raw values of the samples: those of the worked examples
SampleRaws == {95, 100, 102, 108}

\* sample lists of a sensor, oldest first; the computations only sum them,
\* so lists are taken in non-decreasing order of value
SampleLists ==
    {l \in UNION {[1..n -> SampleRaws] : n \in 0..MaxSamples} :
        \A i \in 1..(Len(l) - 1) : l[i] <= l[i + 1]}

\* the dict with the given keys in ascending order
RECURSIVE DictOf(_, _)
DictOf(ids, samples) ==
    IF ids = {} THEN <<>>
    ELSE LET sid == CHOOSE x \in ids : \A y \in ids : x <= y
         IN  <<[sid |-> sid, samples |-> samples[sid]]>>
               \o DictOf(ids \ {sid}, samples)

\* the sensors for which the float error decides the rounding: an exact
\* tie computed from floats that are not exact
InexactTies(method, data, ref_id) ==
    LET means == MeansOf(data)
        values == [i \in 1..Len(means) |-> means[i].mean]
        ref_samples == DictGet(data, ref_id)
    IN  IF means = <<>> THEN {}
        ELSE IF method = "median"
        THEN {means[i].sid : i \in
                {j \in 1..Len(means) :
                    /\ IsTie(FracSub(Median(values), values[j]))
                    /\ ~(MedianExact(values) /\ FloatExact(values[j]))}}
        ELSE IF ref_samples = <<>> \/ ref_samples[1] = <<>> THEN {}
        ELSE {means[i].sid : i \in
                {j \in 1..Len(means) :
                    /\ IsTie(FracSub(MeanOf(ref_samples[1]), values[j]))
                    /\ ~(FloatExact(MeanOf(ref_samples[1])) /\ FloatExact(values[j]))}}

\* the float error signs a computation may meet: a float computation is
\* deterministic, so the signs are fixed for given data
FloatErrors(method, data, ref_id) ==
    LET ties == InexactTies(method, data, ref_id)
    IN  {[sid \in CalSensorIds |-> IF sid \in ties THEN f[sid] ELSE 0] :
            f \in [ties -> {-1, 0, 1}]}

FloatIdle == float_err = [sid \in CalSensorIds |-> 0]

OffIdle ==
    /\ off_args = [method |-> "none", data |-> <<>>, ref_id |-> 0]
    /\ off_result = <<>>

OffInit ==
    /\ \E ids \in SUBSET CalSensorIds :
          \E samples \in [ids -> SampleLists] :
             \E method \in {"median", "reference"} :
                off_args = [method |-> method, data |-> DictOf(ids, samples),
                            ref_id |-> 1]
    /\ off_result = <<>>
    /\ float_err \in FloatErrors(off_args.method, off_args.data, off_args.ref_id)

\* compute_offsets_median(data) returns
OffMedianCall ==
    /\ off_result = <<>>
    /\ off_args.method = "median"
    /\ off_result' = <<[raised |-> FALSE,
                        value |-> compute_offsets_median(off_args.data, float_err)]>>
    /\ UNCHANGED off_args
    /\ UNCHANGED notOff

\* compute_offsets_reference(data, ref_id) returns or raises
OffReferenceCall ==
    /\ off_result = <<>>
    /\ off_args.method = "reference"
    /\ off_result' = <<compute_offsets_reference(off_args.data, off_args.ref_id,
                                                 float_err)>>
    /\ UNCHANGED off_args
    /\ UNCHANGED notOff

-----------------------------------------------------------------------------
(* calibrate.py : main *)

\* data.setdefault(sensor_id, []).append((ts, raw))
DictAppend(data, sensor_id, raw) ==
    IF \E i \in 1..Len(data) : data[i].sid = sensor_id
    THEN [i \in 1..Len(data) |->
            IF data[i].sid = sensor_id
            THEN [sid |-> sensor_id, samples |-> Append(data[i].samples, raw)]
            ELSE data[i]]
    ELSE Append(data, [sid |-> sensor_id, samples |-> <<raw>>])

\* fetch_recent_readings: the loop that groups the rows by sensor_id
RECURSIVE GroupRows(_, _)
GroupRows(rows, data) ==
    IF rows = <<>> THEN data
    ELSE LET grouped == DictAppend(data, Head(rows).sensor_id, Head(rows).raw_value)
         IN  IF Evaluated(grouped) THEN GroupRows(Tail(rows), grouped) ELSE data

fetch_recent_readings(rows) == GroupRows(rows, <<>>)

\* the effect of the executed UPDATEs on the column once committed: an
\* UPDATE whose id matches no row changes nothing
RECURSIVE Committed(_, _)
Committed(rows, txn) ==
    IF txn = <<>> THEN rows
    ELSE LET sid == Head(txn).sid
             updated == IF sid \in DOMAIN rows
                        THEN [rows EXCEPT ![sid] = Col(Head(txn).offset)]
                        ELSE rows
         IN  IF Evaluated(updated) THEN Committed(updated, Tail(txn)) ELSE rows

\* raw values of the rows of sensor_readings
RowRaws == {95, 100}

ReadingRows == [sensor_id : CalSensorIds, raw_value : RowRaws]

\* the sensors table has a row per port, id == port_number; the column
\* calibration_offset_raw is NULL or holds an earlier offset
CalRegistries == {[p \in Ports |-> NULL], [p \in Ports |-> Col(MaxOffset)]}

\* the column calibration_offset: not in the table as temp_monitor creates
\* it; in a table created elsewhere it holds an earlier value
CalColumns ==
    {[exists |-> FALSE, rows |-> [p \in Ports |-> NULL]],
     [exists |-> TRUE, rows |-> [p \in Ports |-> Col(MaxOffset)]]}

\* --method and --ref-id (0: not given)
CalArgvs ==
    {[method |-> "median", ref_id |-> 0]}
      \cup [method : {"reference"}, ref_id : {0, 1}]

CalIdle ==
    /\ sensor_readings = <<>>
    /\ calibration_offset = [exists |-> FALSE, rows |-> [p \in Ports |-> NULL]]
    /\ cal_argv = [method |-> "median", ref_id |-> 0]
    /\ cal_data = <<>>
    /\ cal_offsets = <<>>
    /\ cal_txn = <<>>
    /\ cal_runs = <<>>
    /\ cal_pc = "idle"

CalInit ==
    /\ sensor_readings \in UNION {[1..n -> ReadingRows] : n \in 0..MaxRows}
    /\ calibration_offset \in CalColumns
    /\ cal_argv \in CalArgvs
    /\ cal_data = <<>>
    /\ cal_offsets = <<>>
    /\ cal_txn = <<>>
    /\ cal_runs = <<>>
    /\ cal_pc = "connect"
    /\ float_err \in FloatErrors(cal_argv.method,
                                  fetch_recent_readings(sensor_readings),
                                  cal_argv.ref_id)
    /\ sensors \in CalRegistries
    /\ temperatures = EmptyDict
    /\ port_map = EmptyDict
    /\ displayed = EmptyDict
    /\ stored = EmptyDict
    /\ tm_failed = {}
    /\ tm_pc = "idle"

\* psycopg2.connect succeeds
CalConnect ==
    /\ cal_pc = "connect"
    /\ cal_pc' = "fetch"
    /\ UNCHANGED <<sensor_readings, calibration_offset, cal_argv, cal_data,
                   cal_offsets, cal_txn, cal_runs>>
    /\ UNCHANGED notCal

\* psycopg2.connect raises: sys.exit(1)
CalConnectFails ==
    /\ cal_pc = "connect"
    /\ cal_pc' = "exit"
    /\ UNCHANGED <<sensor_readings, calibration_offset, cal_argv, cal_data,
                   cal_offsets, cal_txn, cal_runs>>
    /\ UNCHANGED notCal

\* fetch_recent_readings returns; with no data main returns (finally: close)
CalFetch ==
    /\ cal_pc = "fetch"
    /\ cal_data' = fetch_recent_readings(sensor_readings)
    /\ cal_pc' = IF cal_data' = <<>> THEN "closed" ELSE "compute"
    /\ UNCHANGED <<sensor_readings, calibration_offset, cal_argv, cal_offsets,
                   cal_txn, cal_runs>>
    /\ UNCHANGED notCal

\* the query raises: finally closes, the exception leaves main
CalFetchRaises ==
    /\ cal_pc = "fetch"
    /\ cal_pc' = "raised"
    /\ UNCHANGED <<sensor_readings, calibration_offset, cal_argv, cal_data,
                   cal_offsets, cal_txn, cal_runs>>
    /\ UNCHANGED notCal

\* what main does with the offsets computed: none, return; else apply them
CalAfterCompute(offsets) ==
    /\ cal_offsets' = offsets
    /\ cal_pc' = IF offsets = <<>> THEN "closed" ELSE "apply"
    /\ cal_runs' = IF offsets = <<>> THEN cal_runs ELSE Append(cal_runs, offsets)

\* method median
CalComputeMedian ==
    /\ cal_pc = "compute"
    /\ cal_argv.method = "median"
    /\ CalAfterCompute(compute_offsets_median(cal_data, float_err))
    /\ UNCHANGED <<sensor_readings, calibration_offset, cal_argv, cal_data, cal_txn>>
    /\ UNCHANGED notCal

\* method reference without --ref-id (or --ref-id 0): sys.exit(1)
CalRefIdMissing ==
    /\ cal_pc = "compute"
    /\ cal_argv.method = "reference"
    /\ cal_argv.ref_id = 0
    /\ cal_pc' = "exit"
    /\ UNCHANGED <<sensor_readings, calibration_offset, cal_argv, cal_data,
                   cal_offsets, cal_txn, cal_runs>>
    /\ UNCHANGED notCal

\* method reference: compute_offsets_reference returns or raises ValueError
CalComputeReference ==
    /\ cal_pc = "compute"
    /\ cal_argv.method = "reference"
    /\ cal_argv.ref_id # 0
    /\ LET outcome == compute_offsets_reference(cal_data, cal_argv.ref_id, float_err)
       IN  IF outcome.raised
           THEN cal_pc' = "raised" /\ UNCHANGED <<cal_offsets, cal_runs>>
           ELSE CalAfterCompute(outcome.value)
    /\ UNCHANGED <<sensor_readings, calibration_offset, cal_argv, cal_data, cal_txn>>
    /\ UNCHANGED notCal

\* apply_offsets with every UPDATE visible as soon as it is executed
CalApplyExecuteAutocommit ==
    /\ cal_pc = "apply"
    /\ Len(cal_txn) < Len(cal_offsets)
    /\ calibration_offset.exists
    /\ cal_txn' = Append(cal_txn, cal_offsets[Len(cal_txn) + 1])
    /\ calibration_offset' =
          [calibration_offset EXCEPT
              !.rows = Committed(@, <<cal_offsets[Len(cal_txn) + 1]>>)]
    /\ UNCHANGED <<sensor_readings, cal_argv, cal_data, cal_offsets, cal_runs, cal_pc>>
    /\ UNCHANGED notCal

\* apply_offsets: the next cursor.execute succeeds; the UPDATE stays pending
\* in the connection's transaction
CalApplyExecute ==
    /\ cal_pc = "apply"
    /\ Len(cal_txn) < Len(cal_offsets)
    /\ calibration_offset.exists
    /\ cal_txn' = Append(cal_txn, cal_offsets[Len(cal_txn) + 1])
    /\ UNCHANGED <<sensor_readings, calibration_offset, cal_argv, cal_data,
                   cal_offsets, cal_runs, cal_pc>>
    /\ UNCHANGED notCal

\* apply_offsets: the next cursor.execute raises (always, when the table has
\* no such column): commit is not reached and main's finally closes the
\* connection, which discards the updates executed so far
CalApplyExecuteRaises ==
    /\ cal_pc = "apply"
    /\ Len(cal_txn) < Len(cal_offsets)
    /\ cal_pc' = "raised"
    /\ UNCHANGED <<sensor_readings, calibration_offset, cal_argv, cal_data,
                   cal_offsets, cal_txn, cal_runs>>
    /\ UNCHANGED notCal

\* apply_offsets: conn.commit() succeeds, main prints "Done." and closes
CalApplyCommit ==
    /\ cal_pc = "apply"
    /\ Len(cal_txn) = Len(cal_offsets)
    /\ calibration_offset' =
          [calibration_offset EXCEPT !.rows = Committed(@, cal_txn)]
    /\ cal_txn' = <<>>
    /\ cal_pc' = "closed"
    /\ UNCHANGED <<sensor_readings, cal_argv, cal_data, cal_offsets, cal_runs>>
    /\ UNCHANGED notCal

\* apply_offsets: conn.commit() raises; nothing is committed
CalApplyCommitRaises ==
    /\ cal_pc = "apply"
    /\ Len(cal_txn) = Len(cal_offsets)
    /\ cal_pc' = "raised"
    /\ UNCHANGED <<sensor_readings, calibration_offset, cal_argv, cal_data,
                   cal_offsets, cal_txn, cal_runs>>
    /\ UNCHANGED notCal

\* the program is run again with the same arguments over the same window
CalRunAgain ==
    /\ cal_pc \in {"closed", "raised", "exit"}
    /\ Len(cal_runs) < MaxRuns
    /\ cal_pc' = "connect"
    /\ cal_data' = <<>>
    /\ cal_offsets' = <<>>
    /\ cal_txn' = <<>>
    /\ UNCHANGED <<sensor_readings, calibration_offset, cal_argv, cal_runs>>
    /\ UNCHANGED notCal

CalNext ==
    \/ CalConnect
    \/ CalConnectFails
    \/ CalFetch
    \/ CalFetchRaises
    \/ CalComputeMedian
    \/ CalRefIdMissing
    \/ CalComputeReference
    \/ CalApplyExecute
    \/ CalApplyExecuteRaises
    \/ CalApplyCommit
    \/ CalApplyCommitRaises
    \/ CalRunAgain
    \/ OffMedianCall
    \/ OffReferenceCall

-----------------------------------------------------------------------------
(* hubitat_agent/hubitat_client.py : extract_trv_fields *)

\* Python values of a device payload: None is <<>>; the others carry their
\* type: <<"int", n>>, <<"float", q>> (q a fraction), <<"str", s>> (s the
\* sequence of its characters), <<"list", n>> (a list of n items) and
\* <<"dict", d>> (d a record whose absent keys hold Missing)
Missing == <<"missing">>
PyInt(n) == <<"int", n>>
PyFloat(q) == <<"float", q>>
PyStr(s) == <<"str", s>>
PyList(n) == <<"list", n>>
PyDict(d) == <<"dict", d>>

TypeOf(v) == IF v = None THEN "NoneType" ELSE v[1]

\* bool(v)
Truthy(v) ==
    CASE TypeOf(v) = "NoneType" -> FALSE
      [] TypeOf(v) = "int"   -> v[2] # 0
      [] TypeOf(v) = "float" -> v[2].n # 0
      [] TypeOf(v) = "str"   -> v[2] # <<>>
      [] TypeOf(v) = "list"  -> v[2] # 0
      [] TypeOf(v) = "dict"  -> \E k \in DOMAIN v[2] : v[2][k] # Missing

\* a or b
PyOr(a, b) == IF Truthy(a) THEN a ELSE b

\* d.get(key) on a key's slot: None when the key is absent
Get(slot) == IF slot = Missing THEN None ELSE slot

\* d.get(key, default)
GetDefault(slot, default) == IF slot = Missing THEN default ELSE slot

Digits == <<"0", "1", "2", "3", "4", "5", "6", "7", "8", "9">>

IsDigit(c) == \E i \in 1..10 : Digits[i] = c

DigitVal(c) == (CHOOSE i \in 1..10 : Digits[i] = c) - 1

\* s.strip(): leading and trailing whitespace removed
RECURSIVE LStrip(_)
LStrip(s) == IF s # <<>> /\ Head(s) = " " THEN LStrip(Tail(s)) ELSE s

RECURSIVE RStrip(_)
RStrip(s) ==
    IF s # <<>> /\ s[Len(s)] = " " THEN RStrip(SubSeq(s, 1, Len(s) - 1)) ELSE s

Strip(s) == RStrip(LStrip(s))

\* the number a run of decimal digits denotes
RECURSIVE DigitsVal(_)
DigitsVal(s) ==
    IF s = <<>> THEN 0
    ELSE 10 * DigitsVal(SubSeq(s, 1, Len(s) - 1)) + DigitVal(s[Len(s)])

RECURSIVE Pow10(_)
Pow10(k) == IF k = 0 THEN 1 ELSE 10 * Pow10(k - 1)

\* the outcome of a conversion: a value returned, or ValueError raised
Returned(v) == [raised |-> FALSE, value |-> v]
ValueError == [raised |-> TRUE, value |-> 0]

\* an optional sign, and the rest
SignOf(s) == IF s # <<>> /\ Head(s) = "-" THEN -1 ELSE 1
Unsigned(s) == IF s # <<>> /\ Head(s) \in {"-", "+"} THEN Tail(s) ELSE s

\* int(s) on a string: surrounding whitespace, an optional sign, digits
ParseInt(s) ==
    LET body == Unsigned(Strip(s))
    IN  IF body # <<>> /\ \A i \in 1..Len(body) : IsDigit(body[i])
        THEN Returned(SignOf(Strip(s)) * DigitsVal(body))
        ELSE ValueError

\* float(s) on a string: surrounding whitespace, an optional sign, digits
\* with at most one point and at least one digit
ParseFloat(s) ==
    LET body == Unsigned(Strip(s))
        IsPoint(c) == c = "."
        points == SelectSeq(body, IsPoint)
        digits == SelectSeq(body, IsDigit)
        at == IF points = <<>> THEN Len(body)
              ELSE CHOOSE i \in 1..Len(body) : body[i] = "."
    IN  IF /\ Len(points) <= 1
           /\ digits # <<>>
           /\ Len(points) + Len(digits) = Len(body)
        THEN Returned(Frac(SignOf(Strip(s)) * DigitsVal(digits), Pow10(Len(body) - at)))
        ELSE ValueError

\* int(q) on a float: truncation towards zero
Truncate(q) == IF q.n >= 0 THEN q.n \div q.d ELSE -((-q.n) \div q.d)

\* as_float(v): float(v) if v is not None else None; None on any exception
as_float(v) ==
    CASE TypeOf(v) = "NoneType" -> None
      [] TypeOf(v) = "int"   -> PyFloat(Frac(v[2], 1))
      [] TypeOf(v) = "float" -> v
      [] TypeOf(v) = "str"   ->
            IF ParseFloat(v[2]).raised THEN None ELSE PyFloat(ParseFloat(v[2]).value)
      [] OTHER -> None

\* as_int(v): int(v) if v is not None else None; None on any exception
as_int(v) ==
    CASE TypeOf(v) = "NoneType" -> None
      [] TypeOf(v) = "int"   -> v
      [] TypeOf(v) = "float" -> PyInt(Truncate(v[2]))
      [] TypeOf(v) = "str"   ->
            IF ParseInt(v[2]).raised THEN None ELSE PyInt(ParseInt(v[2]).value)
      [] OTHER -> None

\* str(v) of an int or a string
RECURSIVE NatToChars(_)
NatToChars(n) ==
    IF n < 10 THEN <<Digits[n + 1]>>
    ELSE NatToChars(n \div 10) \o <<Digits[(n % 10) + 1]>>

Str(v) ==
    CASE TypeOf(v) = "str" -> v[2]
      [] TypeOf(v) = "int" ->
            IF v[2] < 0 THEN <<"-">> \o NatToChars(-v[2]) ELSE NatToChars(v[2])

\* the empty dict {} of attributes
NoAttributes ==
    PyDict([temperature |-> Missing, thermostatSetpoint |-> Missing,
            battery |-> Missing, healthStatus |-> Missing,
            thermostatOperatingState |-> Missing])

\* x.get(...) on something that is not a dict raises AttributeError
AttributeError == [raised |-> TRUE, value |-> <<>>]

\* extract_trv_fields(device)
extract_trv_fields(device) ==
    IF TypeOf(device) # "dict" THEN AttributeError
    ELSE LET attributes == PyOr(GetDefault(device[2].attributes, NoAttributes),
                                NoAttributes)
         IN  IF TypeOf(attributes) # "dict" THEN AttributeError
             ELSE Returned(
               [device_id |-> IF Get(device[2].id) # None
                              THEN PyStr(Str(Get(device[2].id))) ELSE None,
                label |-> Get(device[2].label),
                name |-> Get(device[2].name),
                room |-> Get(device[2].room),
                temperature |-> as_float(Get(attributes[2].temperature)),
                setpoint |-> as_float(PyOr(Get(attributes[2].thermostatSetpoint),
                                           Get(attributes[2].thermostatSetpoint))),
                battery |-> as_int(Get(attributes[2].battery)),
                health_status |-> Get(attributes[2].healthStatus),
                operating_state |-> Get(attributes[2].thermostatOperatingState),
                raw |-> device])

-----------------------------------------------------------------------------
(* extract_trv_fields called on its own *)

\* characters the strings of a payload are built from: a digit, the point,
\* the sign, white space
Chars == {"2", ".", "-", " "}

Strings == UNION {[1..n -> Chars] : n \in 0..MaxStrLen}

\* values of a numeric attribute: absent, None, numbers, strings, a list
NumValues ==
    {Missing, None, PyInt(0), PyInt(20), PyFloat(Frac(176, 10)),
     PyFloat(Frac(-5, 10)), PyList(1)}
      \cup {PyStr(s) : s \in Strings}

FewNumValues == {Missing, PyStr(<<"2", "0">>), PyStr(<<"x">>)}

\* values of a text field
TextValues == {Missing, PyStr(<<"x">>)}

\* values of the id: absent, None, numbers, strings
IdValues == {Missing, None, PyInt(0), PyInt(45), PyStr(<<>>), PyStr(<<"2">>)}

Attributes(temperature, thermostatSetpoint, battery, healthStatus) ==
    PyDict([temperature |-> temperature, thermostatSetpoint |-> thermostatSetpoint,
            battery |-> battery, healthStatus |-> healthStatus,
            thermostatOperatingState |-> healthStatus])

\* a device (or webhook payload) dict
Device(id, label, room, attributes) ==
    PyDict([id |-> id, label |-> label, name |-> label, room |-> room,
            attributes |-> attributes, device |-> Missing])

\* attributes with one numeric attribute ranging over every value, the
\* other two absent, convertible or not convertible
AttributeDicts ==
    {Attributes(v, f, f, Missing) : v \in NumValues, f \in FewNumValues}
      \cup {Attributes(f, v, f, Missing) : v \in NumValues, f \in FewNumValues}
      \cup {Attributes(f, f, v, Missing) : v \in NumValues, f \in FewNumValues}

\* the attributes key absent, None, empty, or not a dict at all
OddAttributes ==
    {Missing, None, NoAttributes, PyList(0), PyList(1), PyStr(<<>>), PyStr(<<"x">>),
     Attributes(PyStr(<<"2", "0">>), Missing, PyInt(20), PyStr(<<"x">>))}

ExtDevices ==
    {Device(PyStr(<<"2">>), PyStr(<<"x">>), Missing, a) : a \in AttributeDicts}
      \cup {Device(id, label, room, a) :
               id \in IdValues, label \in TextValues, room \in TextValues,
               a \in OddAttributes}

ExtIdle ==
    /\ ext_device = None
    /\ ext_result = <<>>

ExtInit ==
    /\ ext_device \in ExtDevices
    /\ ext_result = <<>>

\* the call ends: it returns the fields or raises
ExtractCall ==
    /\ ext_device # None
    /\ ext_result = <<>>
    /\ ext_result' = <<extract_trv_fields(ext_device)>>
    /\ UNCHANGED ext_device
    /\ UNCHANGED notExt

-----------------------------------------------------------------------------
(* hubitat_agent/main.py : run_poll_loop and the webhook *)

\* the loop over the devices that run_poll_once and events() share: rows of
\* the devices with a device_id, or the exception extract_trv_fields raised
RECURSIVE BuildRowsKeepsAll(_, _)
BuildRowsKeepsAll(devices, rows) ==
    IF devices = <<>> THEN Returned(rows)
    ELSE LET r == extract_trv_fields(Head(devices))
         IN  IF r.raised THEN AttributeError
             ELSE BuildRowsKeepsAll(Tail(devices), Append(rows, r.value))

RECURSIVE BuildRows(_, _)
BuildRows(devices, rows) ==
    IF devices = <<>> THEN Returned(rows)
    ELSE LET r == extract_trv_fields(Head(devices))
         IN  IF r.raised THEN AttributeError
             ELSE IF r.value.device_id = None THEN BuildRows(Tail(devices), rows)
             ELSE BuildRows(Tail(devices), Append(rows, r.value))

\* insert_trv_rows(rows) committed: the rows are in the table
InsertedRows(table, rows) == table \cup {rows[i] : i \in 1..Len(rows)}

\* devices of a fetched list or a payload
HubDevices ==
    {Device(PyStr(<<"2">>), PyStr(<<"x">>), Missing,
            Attributes(PyStr(<<"2", "0">>), Missing, PyInt(20), Missing)),
     Device(PyInt(45), Missing, Missing,
            Attributes(PyStr(<<"x">>), Missing, Missing, Missing)),
     Device(Missing, PyStr(<<"x">>), Missing,
            Attributes(PyStr(<<"2", "0">>), Missing, Missing, Missing)),
     Device(None, Missing, Missing, NoAttributes),
     Device(PyStr(<<"2">>), Missing, Missing, PyList(1)),
     PyStr(<<"x">>)}

DeviceLists == UNION {[1..n -> HubDevices] : n \in 0..MaxDevices}

\* JSON bodies posted to /hubitat/events: not JSON at all, an array, an
\* object (a device, or an event carrying one under "device"), a scalar
Payloads ==
    {<<"invalid">>, None, PyInt(20)}
      \cup {<<"array", l>> : l \in DeviceLists}
      \cup {d \in HubDevices : TypeOf(d) = "dict"}
      \cup {PyDict([id |-> PyInt(45), label |-> Missing, name |-> Missing,
                    room |-> Missing, attributes |-> Missing, device |-> d]) :
               d \in HubDevices}

\* events(): the devices of a payload
DevicesOf(payload) ==
    IF TypeOf(payload) = "array" THEN payload[2]
    ELSE IF TypeOf(Get(payload[2].device)) = "dict" THEN <<payload[2].device>>
    ELSE <<payload>>

HubIdle ==
    /\ hub_payload = None
    /\ hub_devices = <<>>
    /\ hub_rows = <<>>
    /\ insert_calls = <<>>
    /\ trv_temperatures = {}
    /\ hub_failed = {}
    /\ hub_response = None
    /\ hub_pc = "idle"

\* MODE=poll
HubPollInit ==
    /\ hub_payload = None
    /\ hub_devices = <<>>
    /\ hub_rows = <<>>
    /\ insert_calls = <<>>
    /\ trv_temperatures = {}
    /\ hub_failed = {}
    /\ hub_response = None
    /\ hub_pc = "fetch"

\* MODE=server: one request to /hubitat/events
HubServerInit ==
    /\ hub_payload \in Payloads
    /\ hub_devices = <<>>
    /\ hub_rows = <<>>
    /\ insert_calls = <<>>
    /\ trv_temperatures = {}
    /\ hub_failed = {}
    /\ hub_response = None
    /\ hub_pc = "request"

\* run_poll_once: fetch_devices returns a list
HubFetch ==
    /\ hub_pc = "fetch"
    /\ hub_devices' \in DeviceLists
    /\ hub_pc' = "extract"
    /\ UNCHANGED <<hub_payload, hub_rows, insert_calls, trv_temperatures,
                   hub_failed, hub_response>>
    /\ UNCHANGED notHub

\* run_poll_once: fetch_devices raises; logged, return
HubFetchFails ==
    /\ hub_pc = "fetch"
    /\ hub_failed' = hub_failed \cup {"device fetch"}
    /\ hub_pc' = "sleep"
    /\ UNCHANGED <<hub_payload, hub_devices, hub_rows, insert_calls,
                   trv_temperatures, hub_response>>
    /\ UNCHANGED notHub

\* run_poll_once: the rows are built
HubBuildRows ==
    /\ hub_pc = "extract"
    /\ ~BuildRows(hub_devices, <<>>).raised
    /\ hub_rows' = BuildRows(hub_devices, <<>>).value
    /\ hub_pc' = "insert"
    /\ UNCHANGED <<hub_payload, hub_devices, insert_calls, trv_temperatures,
                   hub_failed, hub_response>>
    /\ UNCHANGED notHub

\* run_poll_once: extract_trv_fields raises; nothing catches it in
\* run_poll_once, run_poll_loop or main
HubBuildRowsRaises ==
    /\ hub_pc = "extract"
    /\ BuildRows(hub_devices, <<>>).raised
    /\ hub_pc' = "crashed"
    /\ UNCHANGED <<hub_payload, hub_devices, hub_rows, insert_calls,
                   trv_temperatures, hub_failed, hub_response>>
    /\ UNCHANGED notHub

\* run_poll_once: insert_trv_rows(rows) returns
HubInsert ==
    /\ hub_pc = "insert"
    /\ insert_calls' = Append(insert_calls, hub_rows)
    /\ trv_temperatures' = InsertedRows(trv_temperatures, hub_rows)
    /\ hub_pc' = "sleep"
    /\ UNCHANGED <<hub_payload, hub_devices, hub_rows, hub_failed, hub_response>>
    /\ UNCHANGED notHub

\* run_poll_once: insert_trv_rows(rows) raises (it returns at once when
\* there are no rows); the transaction is rolled back, the error logged
HubInsertFails ==
    /\ hub_pc = "insert"
    /\ hub_rows # <<>>
    /\ insert_calls' = Append(insert_calls, hub_rows)
    /\ hub_failed' = hub_failed \cup {"database write"}
    /\ hub_pc' = "sleep"
    /\ UNCHANGED <<hub_payload, hub_devices, hub_rows, trv_temperatures, hub_response>>
    /\ UNCHANGED notHub

\* run_poll_loop: time.sleep(interval), then the next run_poll_once
HubSleep ==
    /\ hub_pc = "sleep"
    /\ hub_devices' = <<>>
    /\ hub_rows' = <<>>
    /\ hub_failed' = {}
    /\ insert_calls' = <<>>
    /\ hub_pc' = "fetch"
    /\ UNCHANGED <<hub_payload, trv_temperatures, hub_response>>
    /\ UNCHANGED notHub

\* events(): the body is not JSON, or neither an array nor an object: 400
EventsBadRequest ==
    /\ hub_pc = "request"
    /\ TypeOf(hub_payload) \notin {"array", "dict"}
    /\ hub_response' = [status |-> 400, inserted |-> None]
    /\ hub_pc' = "responded"
    /\ UNCHANGED <<hub_payload, hub_devices, hub_rows, insert_calls,
                   trv_temperatures, hub_failed>>
    /\ UNCHANGED notHub

\* events(): extract_trv_fields raises; the framework answers 500
EventsRaises ==
    /\ hub_pc = "request"
    /\ TypeOf(hub_payload) \in {"array", "dict"}
    /\ BuildRows(DevicesOf(hub_payload), <<>>).raised
    /\ hub_devices' = DevicesOf(hub_payload)
    /\ hub_response' = [status |-> 500, inserted |-> None]
    /\ hub_pc' = "responded"
    /\ UNCHANGED <<hub_payload, hub_rows, insert_calls, trv_temperatures, hub_failed>>
    /\ UNCHANGED notHub

\* events(): the rows are inserted and counted
EventsInserted ==
    /\ hub_pc = "request"
    /\ TypeOf(hub_payload) \in {"array", "dict"}
    /\ ~BuildRows(DevicesOf(hub_payload), <<>>).raised
    /\ hub_devices' = DevicesOf(hub_payload)
    /\ hub_rows' = BuildRows(DevicesOf(hub_payload), <<>>).value
    /\ insert_calls' = Append(insert_calls, hub_rows')
    /\ trv_temperatures' = InsertedRows(trv_temperatures, hub_rows')
    /\ hub_response' = [status |-> 200, inserted |-> PyInt(Len(hub_rows'))]
    /\ hub_pc' = "responded"
    /\ UNCHANGED <<hub_payload, hub_failed>>
    /\ UNCHANGED notHub

\* events(): insert_trv_rows raises: "db error", 500
EventsDbError ==
    /\ hub_pc = "request"
    /\ TypeOf(hub_payload) \in {"array", "dict"}
    /\ ~BuildRows(DevicesOf(hub_payload), <<>>).raised
    /\ BuildRows(DevicesOf(hub_payload), <<>>).value # <<>>
    /\ hub_devices' = DevicesOf(hub_payload)
    /\ hub_rows' = BuildRows(DevicesOf(hub_payload), <<>>).value
    /\ insert_calls' = Append(insert_calls, hub_rows')
    /\ hub_failed' = hub_failed \cup {"database write"}
    /\ hub_response' = [status |-> 500, inserted |-> None]
    /\ hub_pc' = "responded"
    /\ UNCHANGED <<hub_payload, trv_temperatures>>
    /\ UNCHANGED notHub

\* run_poll_loop: KeyboardInterrupt arrives; nothing catches it and the
\* process ends
HubInterrupt ==
    /\ hub_pc \in {"fetch", "extract", "insert", "sleep"}
    /\ hub_pc' = "interrupted"
    /\ UNCHANGED <<hub_payload, hub_devices, hub_rows, insert_calls,
                   trv_temperatures, hub_failed, hub_response>>
    /\ UNCHANGED notHub

HubPollNext ==
    \/ HubFetch
    \/ HubFetchFails
    \/ HubBuildRows
    \/ HubBuildRowsRaises
    \/ HubInsert
    \/ HubInsertFails
    \/ HubSleep

HubNext ==
    \/ HubPollNext
    \/ EventsBadRequest
    \/ EventsRaises
    \/ EventsInserted
    \/ EventsDbError
    \/ ExtractCall

-----------------------------------------------------------------------------
(* temp_monitor.py : ROM discovery at startup *)

\* read_sensor_roms: the registers of a chunk as bytes, high byte first
RECURSIVE RomChunkBytes(_)
RomChunkBytes(chunk) ==
    IF chunk = <<>> THEN <<>>
    ELSE <<(Head(chunk) \div 256) % 256, Head(chunk) % 256>>
            \o RomChunkBytes(Tail(chunk))

\* read_sensor_roms: roms[i + 1] for the registers of a response
RomOfPort(regs_in, i, registers_per_sensor) ==
    LET start == i * registers_per_sensor
        chunk == SubSeq(regs_in, start + 1, Min(start + registers_per_sensor, Len(regs_in)))
    IN  Hex(Take(RomChunkBytes(chunk), 8))

read_sensor_roms(regs_in, num_sensors, registers_per_sensor) ==
    [port \in 1..num_sensors |-> RomOfPort(regs_in, port - 1, registers_per_sensor)]

\* main: UPDATE sensors SET rom_code = rom WHERE port_number = port, for
\* each port in turn; rom_code is UNIQUE, so an UPDATE to a code another row
\* holds raises
RECURSIVE UpdateRoms(_, _, _)
UpdateRoms(table, roms_read, port) ==
    IF port > Len(roms_read) THEN Returned(table)
    ELSE IF \E q \in DOMAIN table : q # port /\ table[q] = Col(roms_read[port])
         THEN [raised |-> TRUE, value |-> table]
         ELSE LET updated == [table EXCEPT ![port] = Col(roms_read[port])]
              IN  IF Evaluated(updated) THEN UpdateRoms(updated, roms_read, port + 1)
                  ELSE Returned(table)

\* the registers the device holds: one 8-byte window per port
RdMems == {Flatten(ws) : ws \in [1..NUM_SENSORS -> SampleWindows]}

\* registers a non-error response to a request of n carries: all of them
\* (as far as the device has them), one less, or none
RdResponseLens(n, mem) == {k \in {0, n - 1, n} : k >= 0 /\ k <= Len(mem)}
                             \cup {Min(n, Len(mem))}

\* the registry before discovery: no code yet, or port 1 known already
RdRegistries ==
    {[p \in Ports |-> NULL],
     [p \in Ports |-> IF p = 1 THEN Col(Hex(<<40, 255, 75, 70, 145, 22, 4, 156>>))
                      ELSE NULL]}

RdIdle ==
    /\ rd_env = [start |-> None, registers_per_sensor |-> 4]
    /\ rd_mem = <<>>
    /\ rd_roms = EmptyDict
    /\ rom_code = [p \in Ports |-> NULL]
    /\ rd_pc = "idle"

\* main has connected, ensured the sensors table and shown it
RdInit ==
    /\ rd_env \in [start : {None, <<0>>}, registers_per_sensor : RegistersPerSensor]
    /\ rd_mem \in RdMems
    /\ rd_roms = EmptyDict
    /\ rom_code \in RdRegistries
    /\ rd_pc = "roms"

\* ROM_START_REGISTER is not configured: nothing is read
RdNotConfigured ==
    /\ rd_pc = "roms"
    /\ rd_env.start = None
    /\ rd_pc' = "loop"
    /\ UNCHANGED <<rd_env, rd_mem, rd_roms, rom_code>>
    /\ UNCHANGED notRd

\* read_sensor_roms: the read returns registers
RdReadSensorRoms ==
    /\ rd_pc = "roms"
    /\ rd_env.start # None
    /\ \E n \in RdResponseLens(NUM_SENSORS * rd_env.registers_per_sensor, rd_mem) :
          rd_roms' = read_sensor_roms(MemRegisters(rd_mem, rd_env.start[1], n),
                                      NUM_SENSORS, rd_env.registers_per_sensor)
    /\ rd_pc' = "update"
    /\ UNCHANGED <<rd_env, rd_mem, rom_code>>
    /\ UNCHANGED notRd

\* read_sensor_roms: the read fails or raises: {} and "No ROMs read"
RdReadSensorRomsFails ==
    /\ rd_pc = "roms"
    /\ rd_env.start # None
    /\ rd_roms' = EmptyDict
    /\ rd_pc' = "loop"
    /\ UNCHANGED <<rd_env, rd_mem, rom_code>>
    /\ UNCHANGED notRd

\* main: every UPDATE succeeds and the transaction is committed
RdUpdateSensors ==
    /\ rd_pc = "update"
    /\ ~UpdateRoms(rom_code, rd_roms, 1).raised
    /\ rom_code' = UpdateRoms(rom_code, rd_roms, 1).value
    /\ rd_pc' = "loop"
    /\ UNCHANGED <<rd_env, rd_mem, rd_roms>>
    /\ UNCHANGED notRd

\* main: the database raises (always, on a UNIQUE violation): nothing is
\* committed, the error is printed
RdUpdateSensorsRaises ==
    /\ rd_pc = "update"
    /\ rd_pc' = "loop"
    /\ UNCHANGED <<rd_env, rd_mem, rd_roms, rom_code>>
    /\ UNCHANGED notRd

RdNext ==
    \/ RdNotConfigured
    \/ RdReadSensorRoms
    \/ RdReadSensorRomsFails
    \/ RdUpdateSensors
    \/ RdUpdateSensorsRaises

-----------------------------------------------------------------------------
(* Specifications: one program at a time, the others idle *)

\* the programs and calls added to the first ones are idle
MoreIdle == RdIdle /\ HubIdle /\ ExtIdle

InitTemp ==
    TmInit /\ MpIdle /\ ScIdle /\ CrcIdle /\ ParseIdle
      /\ OffIdle /\ CalIdle /\ FloatIdle /\ MoreIdle
      /\ client = "open"

SpecTemp == InitTemp /\ [][TmNext]_vars

InitRead ==
    MpInit /\ TmIdle /\ ScIdle /\ CrcIdle /\ ParseIdle
      /\ OffIdle /\ CalIdle /\ FloatIdle /\ MoreIdle
      /\ client = "none"

SpecRead == InitRead /\ [][MpNext]_vars

InitScan ==
    ScInit /\ TmIdle /\ MpIdle /\ CrcIdle /\ ParseIdle
      /\ OffIdle /\ CalIdle /\ FloatIdle /\ MoreIdle
      /\ client = "none"

SpecScan == InitScan /\ [][ScNext]_vars

InitCrc ==
    CrcInit /\ TmIdle /\ MpIdle /\ ScIdle /\ ParseIdle
      /\ OffIdle /\ CalIdle /\ FloatIdle /\ MoreIdle
      /\ client = "none"

SpecCrc == InitCrc /\ [][CrcCall]_vars

InitParse ==
    ParseInit /\ TmIdle /\ MpIdle /\ ScIdle /\ CrcIdle
      /\ OffIdle /\ CalIdle /\ FloatIdle /\ MoreIdle
      /\ client = "none"

SpecParse == InitParse /\ [][ParseCall]_vars

\* calibrate is run as a program, or its computations are called directly
InitCal ==
    /\ \/ CalInit /\ OffIdle
       \/ CalIdle /\ OffInit /\ TmIdle
    /\ MpIdle /\ ScIdle /\ CrcIdle /\ ParseIdle /\ MoreIdle
      /\ client = "none"

SpecCal == InitCal /\ [][CalNext]_vars

\* the monitor's startup: ROM discovery
InitRoms ==
    RdInit /\ HubIdle /\ ExtIdle /\ TmIdle /\ MpIdle /\ ScIdle /\ CrcIdle
      /\ ParseIdle /\ OffIdle /\ CalIdle /\ FloatIdle
      /\ client = "none"

SpecRoms == InitRoms /\ [][RdNext]_vars

\* the hubitat agent polls, or serves one request, or extract_trv_fields is
\* called directly
InitHub ==
    /\ \/ HubPollInit /\ ExtIdle
       \/ HubServerInit /\ ExtIdle
       \/ HubIdle /\ ExtInit
    /\ RdIdle /\ TmIdle /\ MpIdle /\ ScIdle /\ CrcIdle
    /\ ParseIdle /\ OffIdle /\ CalIdle /\ FloatIdle
      /\ client = "none"

SpecHub == InitHub /\ [][HubNext]_vars

\* the two poll loops, each running until it is interrupted; the monitor's
\* loop takes a step when it can and the agent's sleep returns
TmLoopInit ==
    /\ sensors \in CalRegistries
    /\ temperatures = EmptyDict
    /\ port_map = EmptyDict
    /\ displayed = EmptyDict
    /\ stored = EmptyDict
    /\ tm_failed = {}
    /\ tm_pc = "read"

InitLoops ==
    /\ \/ TmLoopInit /\ HubIdle /\ client = "open"
       \/ TmIdle /\ HubPollInit /\ client = "none"
    /\ RdIdle /\ ExtIdle /\ MpIdle /\ ScIdle /\ CrcIdle
    /\ ParseIdle /\ OffIdle /\ CalIdle /\ FloatIdle

LoopsNext ==
    \/ TmNext
    \/ TmInterrupt
    \/ HubPollNext
    \/ HubInterrupt

\* the three programs that hold the bus, each of which may be interrupted or
\* meet an exception it does not expect
ScBusInit ==
    /\ dev_mem \in {Flatten(<<w, w>>) : w \in SampleWindows}
    /\ sc_args \in [start : {0}, end : {8}, step : Steps, registers_per_sensor : {4}]
    /\ block_start = 0
    /\ found = <<>>
    /\ examined = {}
    /\ sc_stderr = {}
    /\ sc_reads = {}
    /\ crc_fail = {}
    /\ sc_pc = "connect"

InitBus ==
    /\ \/ MpInit /\ ScIdle /\ TmIdle /\ client = "none"
       \/ MpIdle /\ ScBusInit /\ TmIdle /\ client = "none"
       \/ MpIdle /\ ScIdle /\ TmLoopInit /\ client = "open"
    /\ CrcIdle /\ ParseIdle /\ OffIdle /\ CalIdle /\ FloatIdle /\ MoreIdle

BusNext ==
    \/ MpNext
    \/ MpInterrupt
    \/ MpFatal
    \/ ScNext
    \/ ScInterrupt
    \/ TmNext
    \/ TmInterrupt
    \/ TmLoopRaises

SpecBus == InitBus /\ [][BusNext]_vars

SpecLoops ==
    InitLoops /\ [][LoopsNext]_vars /\ WF_vars(TmNext) /\ WF_vars(HubSleep)

-----------------------------------------------------------------------------
(* Temperature decoder: properties *)

\* signed16 of the specification
Signed16(x) == IF x > 32767 THEN x - 65536 ELSE x

\* offset first, then the sign rule, on a raw word and the offset used
OffsetThenSign(raw, offset) ==
    LET adjusted == raw + offset
    IN  IF adjusted > 32767 THEN adjusted - 65536 ELSE adjusted

\* C1: every stored and every displayed calibrated temperature is
\* raw + offset, reduced by 65536 exactly when that sum exceeds 32767 (the
\* offset is applied before the sign is interpreted); raw 32760 with offset
\* +10 gives -32766 tenths, not the 32770 of converting first.
C1_OffsetBeforeSign ==
    /\ \A p \in DOMAIN stored :
          /\ stored[p].offset = OrZero(sensors[p])
          /\ stored[p].temp_c = OffsetThenSign(stored[p].raw_value, stored[p].offset)
          /\ (stored[p].raw_value = 32760 /\ stored[p].offset = 10)
                => /\ stored[p].temp_c = -32766
                   /\ stored[p].temp_c # Signed16(stored[p].raw_value) + stored[p].offset
    /\ \A p \in DOMAIN displayed :
          /\ displayed[p].true_c = OffsetThenSign(displayed[p].raw, displayed[p].offset)
          /\ (displayed[p].raw = 32760 /\ displayed[p].offset = 10)
                => /\ displayed[p].true_c = -32766
                   /\ displayed[p].true_c # Signed16(displayed[p].raw) + displayed[p].offset

C1_Witness ==
    \E p \in DOMAIN stored :
       /\ p \in DOMAIN displayed
       /\ stored[p].raw_value = 32760 /\ stored[p].offset = 10
       /\ displayed[p].raw = 32760 /\ displayed[p].offset = 10
       /\ stored[p].temp_c = -32766

\* C2: with offset 0 the calibrated temperature is signed16(raw) tenths, and
\* it equals the unadjusted temperature of read_temperature_sensors, in the
\* stored row and in the displayed row alike.
C2_TemperatureIdentity ==
    /\ \A p \in DOMAIN temperatures :
          temperatures[p].celsius = Signed16(temperatures[p].raw)
    /\ \A p \in DOMAIN stored :
          stored[p].offset = 0 =>
             /\ stored[p].temp_c = Signed16(stored[p].raw_value)
             /\ stored[p].temp_c = temperatures[p].celsius
    /\ \A p \in DOMAIN displayed :
          displayed[p].offset = 0 =>
             /\ displayed[p].true_c = Signed16(displayed[p].raw)
             /\ displayed[p].true_c = temperatures[p].celsius

C2_Witness ==
    \E p \in DOMAIN stored :
       /\ p \in DOMAIN displayed
       /\ stored[p].offset = 0 /\ displayed[p].offset = 0
       /\ stored[p].raw_value = 32768
       /\ stored[p].temp_c = -32768

\* status of the specification: not connected first, then the range test
SpecStatus(rawWord) ==
    IF rawWord = 0 \/ rawWord = 65535 THEN "NOT CONNECTED"
    ELSE IF Signed16(rawWord) < -550 \/ Signed16(rawWord) > 1250 THEN "OUT OF RANGE"
    ELSE "OK"

\* C3: the displayed status (range test first in the code) equals the
\* status in the specification's priority order for every raw word.
C3_StatusClassification ==
    \A p \in DOMAIN displayed :
       displayed[p].status = SpecStatus(displayed[p].raw)

C3_Witness ==
    \E p, q \in DOMAIN displayed :
       /\ displayed[p].raw = 0 /\ displayed[p].status = "NOT CONNECTED"
       /\ displayed[q].raw = 1300 /\ displayed[q].status = "OUT OF RANGE"

\* C4: two sensors showing the same raw word have the same status whatever
\* their offsets, and a raw word of 0 or 0xFFFF is NOT CONNECTED under
\* every offset.
C4_StatusIndependentOfOffset ==
    /\ \A p, q \in DOMAIN displayed :
          displayed[p].raw = displayed[q].raw
             => displayed[p].status = displayed[q].status
    /\ \A p \in DOMAIN displayed :
          displayed[p].raw \in {0, 65535} => displayed[p].status = "NOT CONNECTED"

C4_Witness ==
    \E p, q \in DOMAIN displayed :
       /\ displayed[p].raw = 65535 /\ displayed[q].raw = 65535
       /\ displayed[p].offset = 0 /\ displayed[q].offset = 2
       /\ displayed[q].true_c = 1
       /\ displayed[q].status = "NOT CONNECTED"

-----------------------------------------------------------------------------
(* Register reader (modpoll): properties *)

CeilDiv(a, b) == (a + b - 1) \div b

RECURSIVE SumSizes(_)
SumSizes(cs) == IF cs = <<>> THEN 0 ELSE cs[1].count + SumSizes(Tail(cs))

RECURSIVE ConcatWords(_)
ConcatWords(cs) == IF cs = <<>> THEN <<>> ELSE cs[1].words \o ConcatWords(Tail(cs))

Sizes(cs) == [i \in 1..Len(cs) |-> cs[i].count]

LoopLeft == mp_pc \in {"report", "closed"}

Failed(call) == call.outcome \in {"error", "exception"}

\* C5: a read of count > 0 registers in which no chunk fails issues exactly
\* ceil(count / 125) transport reads, each of at most 125 registers, all but
\* the last of exactly 125, and the sizes sum to count (300: 125, 125, 50).
C5_ChunkSizes ==
    (LoopLeft /\ read_error = None /\ count > 0) =>
       /\ Len(calls) = CeilDiv(count, 125)
       /\ \A i \in 1..Len(calls) :
             /\ calls[i].count >= 1 /\ calls[i].count <= 125
             /\ i < Len(calls) => calls[i].count = 125
       /\ SumSizes(calls) = count
       /\ count = 300 => Sizes(calls) = <<125, 125, 50>>

C5_Witness ==
    /\ mp_pc = "closed" /\ read_error = None /\ count = 300
    /\ Sizes(calls) = <<125, 125, 50>>
    /\ Len(regs) = 300

\* C6: transport reads are issued one at a time, their start addresses are
\* strictly increasing, and the address ranges of two chunks of one read
\* never overlap.
C6_ChunkOrdering ==
    /\ \A i \in 1..Len(calls) : calls[i].outcome = "pending" => i = Len(calls)
    /\ \A i, j \in 1..Len(calls) :
          i < j => /\ calls[i].addr < calls[j].addr
                   /\ calls[i].addr + calls[i].count <= calls[j].addr

\* C7: a failed chunk ends the read: it is the last transport read issued,
\* control has left the loop, and the failure message was printed; while
\* the loop runs no earlier chunk has failed.
C7_NoRetryAfterFailure ==
    /\ \A i \in 1..Len(calls) :
          Failed(calls[i]) => i = Len(calls) /\ LoopLeft /\ read_error # None
    /\ read_error # None => Len(calls) >= 1 /\ Failed(calls[Len(calls)])
    /\ mp_pc \in {"loop", "call"} => read_error = None

C7_Witness ==
    /\ mp_pc = "closed" /\ count = 300
    /\ Len(calls) = 2
    /\ calls[1].outcome = "ok" /\ calls[2].outcome = "exception"

-----------------------------------------------------------------------------
(* ROM decoder (scan_roms): properties *)

\* The checksum of the specification, on a register of eight bits
\* (bit 0 is the low bit): crc ^= b, then eight times: if the low bit is
\* set, shift right and xor with 0x8C (bits 7, 3, 2), else shift right.
BitIx == 0..7

BitsOf(x) == [i \in BitIx |-> (x \div (2 ^ i)) % 2]

ValueOf(v) ==
    v[0] + 2 * v[1] + 4 * v[2] + 8 * v[3] + 16 * v[4] + 32 * v[5] + 64 * v[6] + 128 * v[7]

XorBits(v, w) == [i \in BitIx |-> IF v[i] = w[i] THEN 0 ELSE 1]

ShiftRightBits(v) == [i \in BitIx |-> IF i = 7 THEN 0 ELSE v[i + 1]]

PolyBits == [i \in BitIx |-> IF i \in {7, 3, 2} THEN 1 ELSE 0]

SpecShift(v) ==
    IF v[0] = 1 THEN XorBits(ShiftRightBits(v), PolyBits) ELSE ShiftRightBits(v)

SpecByte(v, b) ==
    LET x0 == XorBits(v, BitsOf(b))
        x1 == SpecShift(x0)
        x2 == SpecShift(x1)
        x3 == SpecShift(x2)
        x4 == SpecShift(x3)
        x5 == SpecShift(x4)
        x6 == SpecShift(x5)
        x7 == SpecShift(x6)
    IN  SpecShift(x7)

RECURSIVE SpecChecksumFrom(_, _, _)
SpecChecksumFrom(v, data, i) ==
    IF i > Len(data) THEN ValueOf(v)
    ELSE LET w == SpecByte(v, data[i])
         IN  IF Evaluated(w) THEN SpecChecksumFrom(w, data, i + 1) ELSE 0

SpecChecksum(data) == SpecChecksumFrom(BitsOf(0), data, 1)

\* validity of the specification: family byte 0x28 and matching checksum
SpecValid(rom) ==
    /\ Len(rom) = 8
    /\ rom[1] = 40
    /\ SpecChecksum(SubSeq(rom, 1, 7)) = rom[8]

ZeroWindow == <<0, 0, 0, 0, 0, 0, 0, 0>>

FoundEntries ==
    UNION {{<<k, found[k][j]>> : j \in 1..Len(found[k])} : k \in DOMAIN found}

RECURSIVE SumOver(_, _)
SumOver(S, f) ==
    IF S = {} THEN 0
    ELSE LET k == CHOOSE x \in S : TRUE IN Len(f[k]) + SumOver(S \ {k}, f)

ValidExamined ==
    {<<e.reg_index, <<e.order, Hex(e.rom)>>>> : e \in {x \in examined : SpecValid(x.rom)}}

\* C9: the found map holds exactly the decoded windows whose first byte is
\* 0x28 and whose checksum over the first 7 bytes equals the 8th byte, each
\* once; an all-zero window is never in it.
C9_RomValidity ==
    /\ FoundEntries = ValidExamined
    /\ SumOver(DOMAIN found, found) = Cardinality(ValidExamined)
    /\ \A k \in DOMAIN found : \A j \in 1..Len(found[k]) :
          found[k][j][2] # Hex(ZeroWindow)

C9_Witness ==
    /\ sc_pc = "closed"
    /\ \E z, ok \in examined :
          /\ z.rom = ZeroWindow /\ z.reg_index \notin DOMAIN found
          /\ ok.rom[1] = 40 /\ SpecValid(ok.rom)
          /\ ok.reg_index \in DOMAIN found
          /\ found[ok.reg_index] = <<<<ok.order, Hex(ok.rom)>>>>

\* C10: dallas_crc8 returns the checksum of the specification for every
\* byte sequence, a value in 0..255; the known ROM 02 1C B8 01 00 00 00 has
\* checksum A2, and the checksum of the first 7 bytes of a valid ROM is its
\* 8th byte (so that of all 8 bytes is 0).
C10_ChecksumAlgorithm ==
    crc_result # <<>> =>
       /\ crc_result[1] = SpecChecksum(crc_data)
       /\ crc_result[1] \in 0..255
       /\ crc_data = <<2, 28, 184, 1, 0, 0, 0>> => crc_result[1] = 162
       /\ crc_data = <<40, 255, 75, 70, 145, 22, 4>> => crc_result[1] = 156
       /\ (Len(crc_data) = 8 /\ SpecValid(crc_data)) => crc_result[1] = 0

C10_Witness ==
    /\ crc_data = <<40, 255, 75, 70, 145, 22, 4>>
    /\ crc_result = <<156>>

\* The packing of the specification: register i of a ROM holds bytes 2i-1
\* and 2i, the first of them in the high half under "big" and in the low
\* half under "little".
SpecPack(rom, order) ==
    [i \in 1..4 |->
        IF order = "big" THEN rom[2 * i - 1] * 256 + rom[2 * i]
        ELSE rom[2 * i] * 256 + rom[2 * i - 1]]

\* a ROM with the two bytes of every register swapped
SwapPairs(rom) ==
    [i \in 1..8 |-> IF i % 2 = 1 THEN rom[i + 1] ELSE rom[i - 1]]

\* C11: a ROM packed into 4 registers under a byte order and decoded with
\* registers_per_sensor = 4 under the same order comes back as the one
\* original ROM; decoded under the other order it comes back with the two
\* bytes of every register swapped.
C11_RomRoundTrip ==
    (parse_roms # <<>> /\ parse_args.registers_per_sensor = 4) =>
       \A rom \in KnownRoms : \A order \in {"big", "little"} :
          parse_args.regs = SpecPack(rom, order) =>
             parse_roms[1] = << IF parse_args.order_within_reg = order
                                THEN rom ELSE SwapPairs(rom) >>

C11_Witness ==
    /\ parse_args.registers_per_sensor = 4
    /\ parse_args.order_within_reg = "little"
    /\ parse_args.regs = SpecPack(<<40, 255, 75, 70, 145, 22, 4, 156>>, "little")
    /\ parse_roms = << << <<40, 255, 75, 70, 145, 22, 4, 156>> >> >>

\* byte j (from 1) of a list of words under a byte order
SpecByteOf(words, order, j) ==
    LET word == words[(j + 1) \div 2]
    IN  IF (j % 2 = 1) = (order = "big") THEN word \div 256 ELSE word % 256

\* the candidate of a window of words: its bytes, at most the first 8
SpecCandidate(words, order) ==
    [j \in 1..Min(8, 2 * Len(words)) |-> SpecByteOf(words, order, j)]

\* C12: from n words and r registers per sensor the decoder returns
\* n \div r candidates, the k-th (from 0) made of words k*r .. (k+1)*r - 1;
\* the words of a trailing partial window are dropped and change nothing
\* before them.
C12_WindowSplitting ==
    parse_roms # <<>> =>
       LET n == Len(parse_args.regs)
           r == parse_args.registers_per_sensor
       IN  /\ Len(parse_roms[1]) = n \div r
           /\ \A k \in 0..((n \div r) - 1) :
                 parse_roms[1][k + 1] =
                    SpecCandidate(SubSeq(parse_args.regs, k * r + 1, (k + 1) * r),
                                  parse_args.order_within_reg)

C12_Witness ==
    /\ Len(parse_args.regs) = 5
    /\ parse_args.registers_per_sensor = 2
    /\ parse_roms # <<>>
    /\ Len(parse_roms[1]) = 2
    /\ parse_roms[1][2] # parse_roms[1][1]

\* The windows of the blocks the bus answered, decoded as the specification
\* says: block, window index, order, register offset and candidate bytes.
SpecWindows ==
    UNION {
      LET r == sc_args.registers_per_sensor
      IN  {[block_start |-> b.block_start, index |-> k, order |-> order,
            offset |-> b.block_start + k * r,
            rom |-> SpecCandidate(SubSeq(b.regs, k * r + 1, (k + 1) * r), order)] :
              k \in 0..((Len(b.regs) \div r) - 1), order \in {"big", "little"}}
      : b \in sc_reads}

\* the entries of found at a register offset
EntriesAt(offset) ==
    IF offset \in DOMAIN found
    THEN {found[offset][j] : j \in 1..Len(found[offset])}
    ELSE {}

\* C13: every block the bus answered is decoded under both byte orders:
\* each valid window is in found under block_start + index * r with the
\* order that produced it, and a window valid under both orders has two
\* entries at its offset, the "big" one then the "little" one.
C13_BothOrdersTried ==
    \A w \in SpecWindows :
       /\ SpecValid(w.rom) => <<w.order, Hex(w.rom)>> \in EntriesAt(w.offset)
       /\ \A v \in SpecWindows :
             ( /\ v.offset = w.offset
               /\ w.order = "big" /\ v.order = "little"
               /\ SpecValid(w.rom) /\ SpecValid(v.rom) )
             => found[w.offset] = << <<"big", Hex(w.rom)>>, <<"little", Hex(v.rom)>> >>

C13_Witness ==
    /\ sc_pc = "closed"
    /\ 0 \in DOMAIN found /\ 4 \in DOMAIN found
    /\ found[0] = << <<"big", Hex(<<40, 40, 0, 0, 0, 0, 23, 23>>)>>,
                     <<"little", Hex(<<40, 40, 0, 0, 0, 0, 23, 23>>)>> >>
    /\ found[4] = << <<"little", Hex(<<40, 255, 75, 70, 145, 22, 4, 156>>)>> >>

\* a window of family 0x28 whose checksum does not match
SpecNearMiss(rom) ==
    /\ Len(rom) = 8
    /\ rom[1] = 40
    /\ SpecChecksum(SubSeq(rom, 1, 7)) # rom[8]

\* w comes after v in the scan's order of decoding within one order
LaterWindow(v, w) ==
    /\ w.order = v.order
    /\ \/ w.block_start > v.block_start
       \/ (w.block_start = v.block_start /\ w.index > v.index)

\* C14: a window of family 0x28 with a wrong checksum gets a diagnostic
\* line and no entry in found, and decoding goes on after it: every later
\* window, in its block or in a later block, is still classified (a valid
\* one is in found, another near-miss has its line).
C14_NearMissIsNotAnError ==
    \A v \in SpecWindows :
       SpecNearMiss(v.rom) =>
          /\ [reg_index |-> v.offset, order |-> v.order, rom |-> v.rom] \in crc_fail
          /\ <<v.order, Hex(v.rom)>> \notin EntriesAt(v.offset)
          /\ \A w \in SpecWindows :
                LaterWindow(v, w) =>
                   /\ SpecValid(w.rom) =>
                         <<w.order, Hex(w.rom)>> \in EntriesAt(w.offset)
                   /\ SpecNearMiss(w.rom) =>
                         [reg_index |-> w.offset, order |-> w.order, rom |-> w.rom]
                            \in crc_fail

C14_Witness ==
    /\ sc_pc = "closed"
    /\ sc_args.step = 64
    /\ [reg_index |-> 0, order |-> "big",
         rom |-> <<40, 255, 75, 70, 145, 22, 4, 0>>] \in crc_fail
    /\ 0 \notin DOMAIN found
    /\ 4 \in DOMAIN found
    /\ found[4] = << <<"big", Hex(<<40, 255, 75, 70, 145, 22, 4, 156>>)>> >>

-----------------------------------------------------------------------------
(* Calibration engine: properties *)

\* The calibration input of the specification: sensor id -> samples.  For a
\* direct call it is the dict passed, for a run of the program the rows of
\* the window grouped by sensor.
SamplesOfDict(dict) ==
    [sid \in {dict[i].sid : i \in 1..Len(dict)} |->
        dict[CHOOSE i \in 1..Len(dict) : dict[i].sid = sid].samples]

SamplesOfRows(rows) ==
    [sid \in {rows[i].sensor_id : i \in 1..Len(rows)} |->
        LET OfSensor(row) == row.sensor_id = sid
            own == SelectSeq(rows, OfSensor)
        IN  [i \in 1..Len(own) |-> own[i].raw_value]]

\* the offsets of an output as a set of (sensor, offset) pairs
PairsOf(offsets) == {<<offsets[i].sid, offsets[i].offset>> : i \in 1..Len(offsets)}

\* sensors with at least one sample
Sampled(samples) == {sid \in DOMAIN samples : samples[sid] # <<>>}

\* arithmetic mean as a fraction: sum of the samples over their number
RECURSIVE SpecSum(_, _)
SpecSum(l, upto) == IF upto = 0 THEN 0 ELSE SpecSum(l, upto - 1) + l[upto]

SpecMean(l) == [n |-> SpecSum(l, Len(l)), d |-> Len(l)]

\* a < b and a <= b on fractions with positive denominators
SpecLt(a, b) == a.n * b.d < b.n * a.d
SpecLe(a, b) == a.n * b.d <= b.n * a.d

\* the k-th smallest mean of the sampled sensors, by rank
SpecKth(samples, k) ==
    LET ids == Sampled(samples)
        mean == [sid \in ids |-> SpecMean(samples[sid])]
        pick == CHOOSE sid \in ids :
                   /\ Cardinality({t \in ids : SpecLt(mean[t], mean[sid])}) < k
                   /\ Cardinality({t \in ids : SpecLe(mean[t], mean[sid])}) >= k
    IN  mean[pick]

\* the standard median of the per-sensor means
SpecMedian(samples) ==
    LET cnt == Cardinality(Sampled(samples))
    IN  IF cnt % 2 = 1 THEN SpecKth(samples, (cnt + 1) \div 2)
        ELSE LET lo == SpecKth(samples, cnt \div 2)
                 hi == SpecKth(samples, (cnt \div 2) + 1)
             IN  [n |-> lo.n * hi.d + hi.n * lo.d, d |-> 2 * lo.d * hi.d]

\* target - mean as a fraction
SpecDiff(target, mean) == [n |-> target.n * mean.d - mean.n * target.d,
                           d |-> target.d * mean.d]

Abs(x) == IF x < 0 THEN -x ELSE x

\* o is an integer nearest to q
IsNearest(o, q) == 2 * Abs(o * q.d - q.n) <= q.d

\* the output holds one offset per sampled sensor and no other entry, each
\* an integer nearest to target - mean[s]
SpecOffsetsHold(samples, target, offsets) ==
    /\ Len(offsets) = Cardinality(Sampled(samples))
    /\ {p[1] : p \in PairsOf(offsets)} = Sampled(samples)
    /\ \A p \in PairsOf(offsets) :
          IsNearest(p[2], SpecDiff(target, SpecMean(samples[p[1]])))

\* the runs of the computations the model holds: a direct call that has
\* ended, or the call made by a run of the program that went on to apply
DirectCall(method) ==
    off_result # <<>> /\ off_args.method = method

ProgramCall(method) ==
    cal_pc = "apply" /\ cal_argv.method = method

SpecHalfway(q) == (2 * q.n) % q.d = 0 /\ q.n % q.d # 0

\* round-half-away-from-zero of a halfway value: k + 1/2 gives k + 1 and
\* -(k + 1/2) gives -(k + 1), k >= 0
SpecRoundHalfAway(q) ==
    IF q.n >= 0 THEN (2 * q.n + q.d) \div (2 * q.d)
    ELSE -((q.d - 2 * q.n) \div (2 * q.d))

\* every offset of an output whose difference is halfway is rounded away
\* from zero
HalfwayRoundedAway(samples, target, offsets) ==
    \A p \in PairsOf(offsets) :
       LET q == SpecDiff(target, SpecMean(samples[p[1]]))
       IN  SpecHalfway(q) => p[2] = SpecRoundHalfAway(q)

\* C16: in both methods a difference of exactly k + 0.5 gives the offset
\* k + 1 and one of exactly -(k + 0.5) gives -(k + 1).
C16_RoundHalfAwayFromZero ==
    /\ DirectCall("median") =>
          LET samples == SamplesOfDict(off_args.data)
          IN  HalfwayRoundedAway(samples, SpecMedian(samples), off_result[1].value)
    /\ (DirectCall("reference") /\ ~off_result[1].raised) =>
          LET samples == SamplesOfDict(off_args.data)
          IN  HalfwayRoundedAway(samples, SpecMean(samples[off_args.ref_id]),
                                 off_result[1].value)
    /\ ProgramCall("median") =>
          LET samples == SamplesOfRows(sensor_readings)
          IN  HalfwayRoundedAway(samples, SpecMedian(samples), cal_offsets)
    /\ ProgramCall("reference") =>
          LET samples == SamplesOfRows(sensor_readings)
          IN  HalfwayRoundedAway(samples, SpecMean(samples[cal_argv.ref_id]),
                                 cal_offsets)

\* the reference sensor is absent from the input or has no sample
RefUnsampled(samples, ref_id) == ref_id \notin Sampled(samples)

\* a run of the program with the reference method whose reference sensor
\* has no row in the window
ProgramRefUnsampled ==
    /\ cal_pc # "idle"
    /\ cal_argv.method = "reference"
    /\ RefUnsampled(SamplesOfRows(sensor_readings), cal_argv.ref_id)

\* C17: when the reference sensor is absent from the samples or has none,
\* compute_offsets_reference raises and returns no offsets, and a run of
\* the program never reaches apply_offsets: it ends on the error with no
\* update executed and every stored offset as it was.
C17_ReferenceFailure ==
    /\ [](  /\ ( /\ DirectCall("reference")
                 /\ RefUnsampled(SamplesOfDict(off_args.data), off_args.ref_id) )
               => off_result[1] = [raised |-> TRUE, value |-> <<>>]
            /\ ProgramRefUnsampled =>
                  /\ cal_pc # "apply"
                  /\ cal_offsets = <<>> /\ cal_txn = <<>> /\ cal_runs = <<>> )
    /\ [][ ProgramRefUnsampled =>
              /\ calibration_offset' = calibration_offset
              /\ sensors' = sensors
              /\ (cal_pc = "compute" /\ cal_argv.ref_id # 0) => cal_pc' = "raised"
         ]_vars

C17_Witness ==
    /\ cal_pc = "raised"
    /\ cal_argv = [method |-> "reference", ref_id |-> 1]
    /\ cal_data # <<>>
    /\ \A i \in 1..Len(sensor_readings) : sensor_readings[i].sensor_id # 1
    /\ calibration_offset.exists
    /\ cal_runs = <<>>

\* the reference sensor is in the output with offset 0
RefOffsetZero(ref_id, offsets) ==
    \A p \in PairsOf(offsets) : p[1] = ref_id => p[2] = 0

\* C18: reference method.  When the reference sensor has a sample the call
\* returns, for each sensor with samples and no other, the integer nearest
\* to referenceMean - mean[s] (ties of the rounding are the subject of
\* C16); the reference sensor is in the output with offset 0; reference
\* mean 100 and sensor mean 95 give +5.
C18_ReferenceResult ==
    /\ ( /\ DirectCall("reference")
         /\ ~RefUnsampled(SamplesOfDict(off_args.data), off_args.ref_id) ) =>
          LET samples == SamplesOfDict(off_args.data)
              ref_id == off_args.ref_id
          IN  /\ ~off_result[1].raised
              /\ SpecOffsetsHold(samples, SpecMean(samples[ref_id]), off_result[1].value)
              /\ <<ref_id, 0>> \in PairsOf(off_result[1].value)
              /\ RefOffsetZero(ref_id, off_result[1].value)
              /\ \A sid \in Sampled(samples) :
                    ( /\ SpecMean(samples[ref_id]) = [n |-> 100, d |-> 1]
                      /\ SpecMean(samples[sid]) = [n |-> 95, d |-> 1] )
                    => <<sid, 5>> \in PairsOf(off_result[1].value)
    /\ ProgramCall("reference") =>
          LET samples == SamplesOfRows(sensor_readings)
          IN  /\ ~RefUnsampled(samples, cal_argv.ref_id)
              /\ SpecOffsetsHold(samples, SpecMean(samples[cal_argv.ref_id]), cal_offsets)
              /\ <<cal_argv.ref_id, 0>> \in PairsOf(cal_offsets)
              /\ RefOffsetZero(cal_argv.ref_id, cal_offsets)

C18_Witness ==
    /\ DirectCall("reference")
    /\ off_args.ref_id = 1
    /\ SamplesOfDict(off_args.data) = (1 :> <<100>>) @@ (2 :> <<95>>) @@ (3 :> <<>>)
    /\ off_result[1] = [raised |-> FALSE,
                        value |-> <<[sid |-> 1, offset |-> 0],
                                    [sid |-> 2, offset |-> 5]>>]

\* C19: in the median method a sensor without samples has no entry in the
\* output and does not change the offsets of the others (the output is that
\* of the input without it); when no sensor has a sample the call returns
\* an empty mapping without raising.  A run of the program whose window
\* holds no sample ends without an update executed and leaves every stored
\* offset as it was.
C19_EmptyAndZeroSamples ==
    /\ [](  /\ DirectCall("median") =>
                  LET samples == SamplesOfDict(off_args.data)
                      sampled == [sid \in Sampled(samples) |-> samples[sid]]
                  IN  /\ ~off_result[1].raised
                      /\ {p[1] : p \in PairsOf(off_result[1].value)} = Sampled(samples)
                      /\ Sampled(samples) # {} =>
                            SpecOffsetsHold(sampled, SpecMedian(sampled),
                                            off_result[1].value)
                      /\ Sampled(samples) = {} => off_result[1].value = <<>>
            /\ (cal_pc # "idle" /\ sensor_readings = <<>>) =>
                  /\ cal_pc # "apply"
                  /\ cal_offsets = <<>> /\ cal_txn = <<>> /\ cal_runs = <<>> )
    /\ [][ (cal_pc # "idle" /\ sensor_readings = <<>>) =>
              /\ calibration_offset' = calibration_offset
              /\ sensors' = sensors
         ]_vars

C19_Witness ==
    /\ DirectCall("median")
    /\ SamplesOfDict(off_args.data) = (1 :> <<>>) @@ (2 :> <<100>>) @@ (3 :> <<108>>)
    /\ off_result[1] = [raised |-> FALSE,
                        value |-> <<[sid |-> 2, offset |-> 4],
                                    [sid |-> 3, offset |-> -4]>>]

\* the offset the sensor registry holds for a sensor: the column the table
\* is created with and the decoder reads
RegistryOffset(sid) == OrZero(sensors[sid])

\* the consensus or reference value of a run of the program
SpecTarget(samples) ==
    IF cal_argv.method = "median" THEN SpecMedian(samples)
    ELSE SpecMean(samples[cal_argv.ref_id])

\* a run of the program has applied its offsets and ended
RunCompleted == cal_pc = "closed" /\ cal_offsets # <<>>

\* C20: the offsets a run hands to apply_offsets are those of the raw
\* samples of the window, whatever offsets are stored; two runs over the
\* same samples hand over the same offsets; and after a run each sensor's
\* stored offset is the newly computed value.
C20_FullReplacement ==
    /\ \A i \in 1..Len(cal_runs) :
          LET samples == SamplesOfRows(sensor_readings)
          IN  SpecOffsetsHold(samples, SpecTarget(samples), cal_runs[i])
    /\ \A i, j \in 1..Len(cal_runs) : cal_runs[i] = cal_runs[j]
    /\ RunCompleted =>
          \A p \in PairsOf(cal_offsets) :
             p[1] \in DOMAIN sensors => RegistryOffset(p[1]) = p[2]


\* apply_offsets failed on the write for the k-th sensor, k >= 2: the
\* updates for the sensors before it had been executed
FailedPartway ==
    /\ cal_pc = "raised"
    /\ Len(cal_txn) >= 1
    /\ Len(cal_txn) < Len(cal_offsets)

\* C21 as stated: when apply_offsets fails on the write for the k-th sensor,
\* the writes for the sensors before it are visible in the registry.
C21_NonAtomicPersistence ==
    FailedPartway =>
       \A i \in 1..Len(cal_txn) :
          cal_txn[i].sid \in DOMAIN calibration_offset.rows =>
             calibration_offset.rows[cal_txn[i].sid] = Col(cal_txn[i].offset)

\* C21 amended: the writes of apply_offsets are executed in one transaction
\* that is committed after the last of them; until that commit succeeds no
\* stored offset changes, so a failure on the write for the k-th sensor (or
\* of the commit) leaves every sensor with its old offset.
C21_AtomicPersistence ==
    [][ (cal_pc = "apply" /\ cal_pc' # "closed") =>
           /\ calibration_offset' = calibration_offset
           /\ sensors' = sensors
      ]_vars

C21_Witness ==
    /\ FailedPartway
    /\ calibration_offset.exists
    /\ \E i \in 1..Len(cal_txn) :
          /\ cal_txn[i].sid \in DOMAIN calibration_offset.rows
          /\ calibration_offset.rows[cal_txn[i].sid] # Col(cal_txn[i].offset)

-----------------------------------------------------------------------------
(* Poll loops: properties *)

\* the monitor's loop is at the start of a poll cycle, or was interrupted
TmNextCycle == tm_pc = "read" \/ tm_pc = "closed"

\* the agent's loop is at the start of a poll cycle, or was interrupted
HubNextCycle == hub_pc = "fetch" \/ hub_pc = "interrupted"

\* C22: a poll cycle of the monitor in which the bus read, the offset lookup
\* or the database write failed, and a poll cycle of the agent in which the
\* device fetch or the database write failed, is followed by the start of
\* the next cycle unless the process is interrupted; and a cycle whose bus
\* read failed stores no readings
C22_LoopsSurviveFailedCycles ==
    /\ (tm_failed # {}) ~> TmNextCycle
    /\ (hub_failed # {}) ~> HubNextCycle
    /\ []("bus read" \in tm_failed => stored = EmptyDict)

\* a cycle of the monitor in which the bus read and the offset lookup failed
\* has reached its sleep, or a cycle of the agent whose database write failed
C22_Witness ==
    \/ tm_pc = "sleep" /\ {"bus read", "offset lookup"} \subseteq tm_failed
    \/ hub_pc = "sleep" /\ "database write" \in hub_failed

\* C23: in every poll cycle, for every port with a reading, the offset the
\* displayed calibrated temperature was computed with equals the offset the
\* stored temperature of that port was computed with
C23_DisplayMatchesStored ==
    \A p \in DOMAIN displayed \cap DOMAIN stored :
       /\ displayed[p].offset = stored[p].offset
       /\ displayed[p].true_c = stored[p].temp_c

-----------------------------------------------------------------------------
(* Hubitat agent: properties *)

\* the device with one of its attributes replaced
WithAttributes(device, attributes) ==
    PyDict([device[2] EXCEPT !.attributes = attributes])

\* the fields of a result other than temperature agree
SameButTemperature(r, o) ==
    /\ r.device_id = o.device_id /\ r.label = o.label /\ r.room = o.room
    /\ r.setpoint = o.setpoint /\ r.battery = o.battery

\* the fields of a result other than battery agree
SameButBattery(r, o) ==
    /\ r.device_id = o.device_id /\ r.label = o.label /\ r.room = o.room
    /\ r.setpoint = o.setpoint /\ r.temperature = o.temperature

\* C24: extract_trv_fields does not raise on a device dict, whatever its
\* attributes are; an absent numeric attribute becomes None; and the value of
\* one numeric attribute does not change the other extracted fields
C24_TolerantExtraction ==
    ext_result # <<>> =>
       LET r == ext_result[1]
           a == ext_device[2].attributes
       IN  /\ ~r.raised
           /\ TypeOf(a) = "dict" =>
                 /\ Get(a[2].temperature) = None => r.value.temperature = None
                 /\ Get(a[2].thermostatSetpoint) = None => r.value.setpoint = None
                 /\ Get(a[2].battery) = None => r.value.battery = None
                 /\ \A v \in FewNumValues \cup {PyList(1)} :
                       /\ SameButTemperature(r.value,
                             extract_trv_fields(WithAttributes(ext_device,
                                PyDict([a[2] EXCEPT !.temperature = v]))).value)
                       /\ SameButBattery(r.value,
                             extract_trv_fields(WithAttributes(ext_device,
                                PyDict([a[2] EXCEPT !.battery = v]))).value)

\* the device has an id: the key is there and its value is not None
HasId(device) == device[2].id \notin {Missing, None}

\* number of devices of a list that have an id
RECURSIVE CountWithId(_)
CountWithId(devices) ==
    IF devices = <<>> THEN 0
    ELSE (IF HasId(Head(devices)) THEN 1 ELSE 0) + CountWithId(Tail(devices))

\* C25: extract_trv_fields returns device_id None exactly for a device
\* without an id; no list of rows passed to insert_trv_rows, by the poll path
\* or the webhook, holds a row with device_id None; and the count the webhook
\* reports is the number of devices of the payload that have an id
C25_DevicesWithoutIdSkipped ==
    /\ (ext_result # <<>> /\ ~ext_result[1].raised) =>
          (ext_result[1].value.device_id = None <=> ~HasId(ext_device))
    /\ \A c \in 1..Len(insert_calls) :
          \A i \in 1..Len(insert_calls[c]) : insert_calls[c][i].device_id # None
    /\ (hub_pc = "responded" /\ hub_response.status = 200) =>
          hub_response.inserted = PyInt(CountWithId(hub_devices))

\* the webhook answered a payload of two devices, one of them without an id
C25_Witness ==
    /\ hub_pc = "responded" /\ hub_response.status = 200
    /\ Len(hub_devices) = 2
    /\ \E i \in 1..2 : ~HasId(hub_devices[i])
    /\ insert_calls # <<>> /\ Len(insert_calls[1]) = 1

-----------------------------------------------------------------------------
(* Calibration and the poll loop *)

\* C26: after a run of calibrate has applied offset v for sensor s, the
\* offset get_port_map and store_sensor_data find for the port of sensor s
\* (id == port_number) is v
C26_CalibrationReachesDecoder ==
    RunCompleted =>
       \A p \in PairsOf(cal_offsets) :
          p[1] \in Ports =>
             /\ PortMapGet(BuildPortMap(sensors), p[1]).offset = p[2]
             /\ DisplayOffset(BuildPortMap(sensors), p[1]) = p[2]

-----------------------------------------------------------------------------
(* Chunked read and scan: completeness *)

\* C27: when the chunk loop has finished and no failure was reported, the
\* accumulated words are as many as requested and the word at index i is the
\* register at address start + i, also after non-error responses that
\* carried fewer words than the chunk requested
C27_ReadCompleteness ==
    (LoopLeft /\ read_error = None) =>
       /\ Len(regs) = count
       /\ \A i \in 1..Len(regs) : regs[i] = Dev(base + i - 1)

\* start addresses of the blocks of the range
BlockStarts ==
    {b \in sc_args.start..(sc_args.end - 1) : (b - sc_args.start) % sc_args.step = 0}

\* the scan has ended and every block read returned the registers asked for
AllBlocksRead ==
    /\ sc_pc = "closed"
    /\ \A b \in BlockStarts :
          \E rd \in sc_reads :
             /\ rd.block_start = b
             /\ Len(rd.regs) = Min(sc_args.step, sc_args.end - b)

\* addresses start + k*r of the windows that lie fully inside [start, end)
AlignedWindows ==
    {a \in sc_args.start..(sc_args.end - 1) :
        /\ (a - sc_args.start) % sc_args.registers_per_sensor = 0
        /\ a + sc_args.registers_per_sensor <= sc_args.end}

\* C28: when all block reads succeed, every window of r registers that
\* begins at start + k*r and lies inside [start, end) is decoded under both
\* byte orders, once each, wherever the block boundaries fall
C28_ScanCoverage ==
    AllBlocksRead =>
       \A a \in AlignedWindows : \A order \in {"big", "little"} :
          LET words == MemRegisters(dev_mem, a, sc_args.registers_per_sensor)
          IN  Cardinality({e \in examined : e.reg_index = a /\ e.order = order}) = 1
              /\ [reg_index |-> a, order |-> order,
                  rom |-> SpecCandidate(words, order)] \in examined

-----------------------------------------------------------------------------
(* ROM discovery: properties *)

\* the 8 bytes a rom_code of the registry stands for come from a window of
\* the device that is a valid ROM under some byte order
ValidatedCode(code) ==
    \E a \in 0..(Len(rd_mem) - 4) : \E order \in {"big", "little"} :
       LET rom == SpecCandidate(MemRegisters(rd_mem, a, 4), order)
       IN  SpecValid(rom) /\ code = Hex(rom)

\* C29: every rom_code that ROM discovery writes into the registry is that
\* of a window with family byte 0x28 and a matching checksum
C29_OnlyValidatedRoms ==
    [][\A p \in Ports :
          (rom_code'[p] # rom_code[p] /\ rom_code'[p] # NULL)
             => ValidatedCode(rom_code'[p][1])]_vars

-----------------------------------------------------------------------------
(* The bus handle *)

\* the program that runs is inside its try block: reading, or reporting
\* what it read
Running ==
    \/ mp_pc \in {"loop", "call", "report"}
    \/ sc_pc = "scan"
    \/ tm_pc \in TmLoop

\* C30: in modpoll, scan_roms and temp_monitor, once connect() has
\* succeeded the client is open exactly while the program reads: however the
\* read loop is left (completion, a failed chunk or block, an unexpected
\* exception, an interrupt), the program ends with the client closed
C30_BusHandleReleased ==
    /\ Running => client = "open"
    /\ (client # "none" /\ ~Running) => client = "closed"

\* modpoll was interrupted while a read was pending, after a chunk had been
\* read
C30_Witness ==
    /\ mp_pc = "interrupted" /\ client = "closed"
    /\ Len(calls) = 2 /\ calls[2].outcome = "pending"

=============================================================================
